---- MODULE Spec2Model ----
(***************************************************************************)
(* A model of oscontainer: the cgroup subsystem readers (v1, v2), the      *)
(* active_processor_count algorithm and the OSContainer facade.            *)
(*                                                                         *)
(* Python values are modelled as follows.  Integers are TLA+ integers      *)
(* (Python ints are unbounded).  Text is a TLA+ string.  A call's outcome  *)
(* is a record [exc, kind, n, s]: exc names the exception that left the    *)
(* call ("" when the call returned), kind is the type of the returned      *)
(* value ("int", "str" or "none"), n and s hold an int or a str value.     *)
(*                                                                         *)
(* math.ceil(float(a) / float(b)) is modelled by exact integer ceiling     *)
(* division; the two agree for every a below 2^53.                         *)
(***************************************************************************)
EXTENDS Integers, Sequences, FiniteSets, TLC

(***************************************************************************)
(* Program constants.                                                      *)
(***************************************************************************)
NO_LIMIT == -1
PER_CPU_SHARES == 1024
CGROUP_TYPE_V1 == "cgroup"
CGROUP_TYPE_V2 == "cgroup2"

(***************************************************************************)
(* Bounds of the model.                                                    *)
(***************************************************************************)
MaxQuota == 7
MaxPeriod == 3
MaxShareCpus == 3
MaxHostCpus == 4

(***************************************************************************)
(* Outcomes of calls.                                                      *)
(***************************************************************************)
RetInt(i) == [exc |-> "", kind |-> "int", n |-> i, s |-> ""]
RetStr(t) == [exc |-> "", kind |-> "str", n |-> 0, s |-> t]
RetNone == [exc |-> "", kind |-> "none", n |-> 0, s |-> ""]
Raise(e) == [exc |-> e, kind |-> "none", n |-> 0, s |-> ""]
NoCall == [exc |-> "", kind |-> "nocall", n |-> 0, s |-> ""]

Min(a, b) == IF a <= b THEN a ELSE b

\* math.ceil(float(a) / float(b)) for b > 0
CeilDiv(a, b) == -((-a) \div b)

(***************************************************************************)
(* Text.  A str is a TLA+ string; Len, \o and SubSeq apply to it.          *)
(***************************************************************************)
CharAt(t, i) == SubSeq(t, i, i)

IsSpace(c) == c \in {" ", "\t", "\n", "\r"}

Digits == <<"0", "1", "2", "3", "4", "5", "6", "7", "8", "9">>

IsDigit(c) == \E d \in 1 .. 10 : Digits[d] = c

DigitVal(c) == (CHOOSE d \in 1 .. 10 : Digits[d] = c) - 1

\* str.startswith
StartsWith(t, prefix) ==
    Len(prefix) <= Len(t) /\ SubSeq(t, 1, Len(prefix)) = prefix

\* str.endswith
EndsWith(t, suffix) ==
    Len(suffix) <= Len(t) /\ SubSeq(t, Len(t) - Len(suffix) + 1, Len(t)) = suffix

FirstOf(hits) ==
    IF hits = {} THEN -1 ELSE (CHOOSE i \in hits : \A j \in hits : i <= j) - 1

\* str.find: the 0-based index of the first occurrence of sub in t, or -1
Find(t, sub) ==
    FirstOf({i \in 1 .. (Len(t) - Len(sub) + 1) : SubSeq(t, i, i + Len(sub) - 1) = sub})

StripTo(t, keep) ==
    IF keep = {} THEN ""
    ELSE SubSeq(t, CHOOSE i \in keep : \A j \in keep : i <= j,
                   CHOOSE i \in keep : \A j \in keep : i >= j)

\* str.strip
Strip(t) == StripTo(t, {i \in 1 .. Len(t) : ~IsSpace(CharAt(t, i))})

\* the value of a string of decimal digits
RECURSIVE DecimalValue(_)
DecimalValue(t) ==
    IF Len(t) = 0 THEN 0
    ELSE 10 * DecimalValue(SubSeq(t, 1, Len(t) - 1)) + DigitVal(CharAt(t, Len(t)))

AllDigits(t) == Len(t) > 0 /\ \A i \in 1 .. Len(t) : IsDigit(CharAt(t, i))

ParseDigits(negative, body) ==
    IF ~AllDigits(body) THEN Raise("ValueError")
    ELSE RetInt(IF negative THEN -DecimalValue(body) ELSE DecimalValue(body))

ParseStripped(t) ==
    IF Len(t) > 0 /\ CharAt(t, 1) \in {"+", "-"}
    THEN ParseDigits(CharAt(t, 1) = "-", SubSeq(t, 2, Len(t)))
    ELSE ParseDigits(FALSE, t)

\* int(text): surrounding whitespace is dropped, a sign may lead the digits;
\* anything else is a ValueError
PyInt(text) == ParseStripped(Strip(text))

\* os.path.join(a, b) for a relative b
PathJoin(a, b) ==
    IF a = "" \/ EndsWith(a, "/") THEN a \o b ELSE a \o "/" \o b

\* Optional values: None is the empty tuple, a value v is <<v>>
None == <<>>
Some(v) == <<v>>
IsNone(o) == o = <<>>
Get(o) == o[1]

(***************************************************************************)
(* cgroups.py: the topology reader.                                        *)
(*                                                                         *)
(* A proc file is None when it cannot be opened, else Some(lines), a line  *)
(* given by its fields:                                                    *)
(*   /proc/cgroups          [name, hierarchy_id, enabled]                  *)
(*   /proc/self/cgroup      [hierarchy_id, controllers, cgroup_path]       *)
(*   /proc/self/mountinfo   [root, mount, fs_type, cgroups, optional]      *)
(* controllers and cgroups are the comma-separated lists, already split;   *)
(* optional is the list of optional fields of a mountinfo line, the tokens *)
(* the kernel writes between the mount options and the " - " separator.    *)
(***************************************************************************)
SUBSYS_MEMORY == "memory"
SUBSYS_CPUSET == "cpuset"
SUBSYS_CPU == "cpu"
SUBSYS_CPUACCT == "cpuacct"
SUBSYS_PIDS == "pids"

subsys_controllers == {SUBSYS_PIDS, SUBSYS_MEMORY, SUBSYS_CPU, SUBSYS_CPUACCT, SUBSYS_CPUSET}

CgroupInfo(name, hierarchy_id, enabled) ==
    [name |-> name, hierarchy_id |-> hierarchy_id, enabled |-> enabled,
     v1_data_complete |-> FALSE, cgroup_path |-> None, root_mount_path |-> None,
     mount_path |-> None]

EmptyDict == [k \in {} |-> CgroupInfo("", 0, FALSE)]

\* dict[key] = value
DictSet(d, key, value) == [k \in DOMAIN d \cup {key} |-> IF k = key THEN value ELSE d[k]]

\* the loop of _read_cgroup_infos
RECURSIVE ReadCgroupInfosLoop(_, _)
ReadCgroupInfosLoop(lines, cg_infos) ==
    IF lines = <<>> THEN cg_infos
    ELSE LET l == Head(lines)
         IN ReadCgroupInfosLoop(Tail(lines),
                IF l.name \in subsys_controllers
                THEN DictSet(cg_infos, l.name, CgroupInfo(l.name, l.hierarchy_id, l.enabled # 0))
                ELSE cg_infos)

\* _read_cgroup_infos: [exc, cg_infos]
read_cgroup_infos(proc_cgroups) ==
    IF IsNone(proc_cgroups) THEN [exc |-> "FileNotFoundError", cg_infos |-> EmptyDict]
    ELSE [exc |-> "", cg_infos |-> ReadCgroupInfosLoop(Get(proc_cgroups), EmptyDict)]

\* the v1 branch of a /proc/self/cgroup line: one pass over its controller list
RECURSIVE SelfCgroupControllers(_, _, _, _)
SelfCgroupControllers(controllers, hierarchy_id, cgroup_path, st) ==
    IF controllers = <<>> \/ st.exc # "" THEN st
    ELSE LET c == Head(controllers)
         IN SelfCgroupControllers(Tail(controllers), hierarchy_id, cgroup_path,
                IF c \notin DOMAIN st.cg_infos THEN st
                ELSE IF hierarchy_id # st.cg_infos[c].hierarchy_id
                     THEN [st EXCEPT !.exc = "AssertionError"]
                     ELSE [st EXCEPT !.cg_infos[c].cgroup_path = Some(Strip(cgroup_path))])

\* the loop of _read_proc_self_cgroup
RECURSIVE ReadProcSelfCgroupLoop(_, _, _)
ReadProcSelfCgroupLoop(lines, is_cgroups_v2, st) ==
    IF lines = <<>> \/ st.exc # "" THEN st
    ELSE LET l == Head(lines)
         IN ReadProcSelfCgroupLoop(Tail(lines), is_cgroups_v2,
                IF is_cgroups_v2
                THEN [st EXCEPT !.cg_infos =
                         [k \in DOMAIN st.cg_infos |->
                             [st.cg_infos[k] EXCEPT !.cgroup_path = Some(Strip(l.cgroup_path))]]]
                ELSE SelfCgroupControllers(l.controllers, l.hierarchy_id, l.cgroup_path, st))

\* _read_proc_self_cgroup: [exc, cg_infos]
read_proc_self_cgroup(proc_self_cgroup, cg_infos, is_cgroups_v2) ==
    IF IsNone(proc_self_cgroup) THEN [exc |-> "FileNotFoundError", cg_infos |-> cg_infos]
    ELSE ReadProcSelfCgroupLoop(Get(proc_self_cgroup), is_cgroups_v2,
                                [exc |-> "", cg_infos |-> cg_infos])

\* the cgroup v2 block of one mountinfo line
MountV2Line(l, st) ==
    IF ~(~st.cgroupv2_mount_point_found /\ l.fs_type = CGROUP_TYPE_V2) THEN st
    ELSE IF \E k \in DOMAIN st.cg_infos : ~IsNone(st.cg_infos[k].mount_path)
         THEN [st EXCEPT !.exc = "AssertionError",
                         !.cgroupv2_mount_point_found = TRUE,
                         !.any_cgroup_mounts_found = TRUE]
         ELSE [st EXCEPT !.cgroupv2_mount_point_found = TRUE,
                         !.any_cgroup_mounts_found = TRUE,
                         !.cg_infos = [k \in DOMAIN st.cg_infos |->
                                          [st.cg_infos[k] EXCEPT !.mount_path = Some(l.mount)]]]

\* the choice between two cpuset mounts
CpusetMountPath(recorded, tmp_mount) ==
    IF IsNone(recorded) THEN Some(tmp_mount)
    ELSE IF Find(Get(recorded), "/sys/fs/cgroup") > 0 THEN Some(tmp_mount)
    ELSE recorded

\* the v1 block with a recorded mount path overwritten in silence
MountV1ControllerOverwrite(controller, l, st) ==
    IF controller \notin subsys_controllers THEN st
    ELSE IF controller \notin DOMAIN st.cg_infos
         THEN [st EXCEPT !.any_cgroup_mounts_found = TRUE, !.exc = "KeyError"]
         ELSE [st EXCEPT
                 !.any_cgroup_mounts_found = TRUE,
                 !.cg_infos[controller].mount_path = Some(l.mount),
                 !.cg_infos[controller].root_mount_path = Some(l.root),
                 !.cg_infos[controller].v1_data_complete = TRUE]

\* one controller named by a v1 mountinfo line
MountV1Controller(controller, l, st) ==
    IF controller \notin subsys_controllers THEN st
    ELSE LET found == [st EXCEPT !.any_cgroup_mounts_found = TRUE]
         IN IF controller \notin DOMAIN st.cg_infos
            THEN [found EXCEPT !.exc = "KeyError"]
            ELSE IF controller # SUBSYS_CPUSET /\ ~IsNone(st.cg_infos[controller].mount_path)
            THEN [found EXCEPT !.exc = "AssertionError"]
            ELSE [found EXCEPT
                    !.cg_infos[controller].mount_path =
                        IF controller = SUBSYS_CPUSET
                        THEN CpusetMountPath(st.cg_infos[controller].mount_path, l.mount)
                        ELSE Some(l.mount),
                    !.cg_infos[controller].root_mount_path = Some(l.root),
                    !.cg_infos[controller].v1_data_complete = TRUE]

\* the cgroup v1 block of one mountinfo line: one pass over its super options
RECURSIVE MountV1Controllers(_, _, _)
MountV1Controllers(controllers, l, st) ==
    IF controllers = <<>> \/ st.exc # "" THEN st
    ELSE MountV1Controllers(Tail(controllers), l, MountV1Controller(Head(controllers), l, st))

\* the cgroup v1 block of one mountinfo line
MountV1Line(l, st) ==
    IF st.exc # "" \/ l.fs_type # CGROUP_TYPE_V1 THEN st
    ELSE MountV1Controllers(l.cgroups, l, st)

\* whether the two scanf formats of _read_mount_points match the line: both
\* are "<id> <id> <maj>:<min> <root> <mount> <options> - ...", three tokens and
\* then the dash, so a line that carries optional fields (shared:N, master:N)
\* between its options and the dash matches neither
MountLineScans(l) == l.optional = <<>>

\* one mountinfo line: the v2 block (on a v2 candidate), then the v1 block
MountLineStep(l, is_cgroups_v2, st) ==
    IF ~MountLineScans(l) THEN st
    ELSE MountV1Line(l, IF is_cgroups_v2 THEN MountV2Line(l, st) ELSE st)

\* the loop of _read_mount_points
RECURSIVE ReadMountPointsLoop(_, _, _)
ReadMountPointsLoop(lines, is_cgroups_v2, st) ==
    IF lines = <<>> \/ st.exc # "" THEN st
    ELSE ReadMountPointsLoop(Tail(lines), is_cgroups_v2,
                             MountLineStep(Head(lines), is_cgroups_v2, st))

MountState(exc) ==
    [exc |-> exc, cgroupv2_mount_point_found |-> FALSE, any_cgroup_mounts_found |-> FALSE]

\* _read_mount_points: [exc, cg_infos, cgroupv2_mount_point_found, any_cgroup_mounts_found]
read_mount_points(proc_self_mountinfo, cg_infos, is_cgroups_v2) ==
    IF IsNone(proc_self_mountinfo)
    THEN [cg_infos |-> cg_infos] @@ MountState("FileNotFoundError")
    ELSE ReadMountPointsLoop(Get(proc_self_mountinfo), is_cgroups_v2,
                             [cg_infos |-> cg_infos] @@ MountState(""))

\* what determine_type returns: cgroup_type "" stands for None
TypeResult(exc, cgroup_type, cg_infos) ==
    [exc |-> exc, cgroup_type |-> cgroup_type, cg_infos |-> cg_infos]

NoType(exc) == TypeResult(exc, "", EmptyDict)

\* the verdict with a v2 candidate that lacks its mount point judged as v1
VerdictLegacyFallback(p3, is_cgroupsV2) ==
    IF p3.exc # "" THEN NoType(p3.exc)
    ELSE IF ~p3.any_cgroup_mounts_found THEN NoType("")
    ELSE IF is_cgroupsV2 /\ p3.cgroupv2_mount_point_found
         THEN TypeResult("", CGROUP_TYPE_V2, p3.cg_infos)
    ELSE IF \E k \in DOMAIN p3.cg_infos :
               ~p3.cg_infos[k].v1_data_complete /\ k # SUBSYS_PIDS
         THEN NoType("")
    ELSE TypeResult("", CGROUP_TYPE_V1, p3.cg_infos)

\* the final verdict of determine_type, p3 what _read_mount_points left
Verdict(p3, is_cgroupsV2) ==
    IF p3.exc # "" THEN NoType(p3.exc)
    ELSE IF ~p3.any_cgroup_mounts_found THEN NoType("")
    ELSE IF is_cgroupsV2
         THEN (IF ~p3.cgroupv2_mount_point_found THEN NoType("")
               ELSE TypeResult("", CGROUP_TYPE_V2, p3.cg_infos))
    ELSE IF \E k \in DOMAIN p3.cg_infos :
               ~p3.cg_infos[k].v1_data_complete /\ k # SUBSYS_PIDS
         THEN NoType("")
    ELSE TypeResult("", CGROUP_TYPE_V1, p3.cg_infos)

\* determine_type from the mountinfo pass on, p2 what _read_proc_self_cgroup left
AfterSelfCgroup(p2, proc_self_mountinfo, is_cgroupsV2) ==
    IF p2.exc # "" THEN NoType(p2.exc)
    ELSE Verdict(read_mount_points(proc_self_mountinfo, p2.cg_infos, is_cgroupsV2), is_cgroupsV2)

IsCgroupsV2(cg_infos) ==
    \A k \in DOMAIN cg_infos \ {SUBSYS_PIDS} : cg_infos[k].hierarchy_id = 0

\* the enabled flags left unchecked
RequiredControllersUnchecked(cg_infos) == TRUE

AllRequiredControllersEnabled(cg_infos) ==
    \A k \in DOMAIN cg_infos \ {SUBSYS_PIDS} : cg_infos[k].enabled

\* determine_type from the first pass on, p1 what _read_cgroup_infos returned
AfterCgroupInfos(p1, proc_self_cgroup, proc_self_mountinfo) ==
    IF p1.exc # "" THEN NoType(p1.exc)
    ELSE IF ~AllRequiredControllersEnabled(p1.cg_infos) THEN NoType("")
    ELSE AfterSelfCgroup(read_proc_self_cgroup(proc_self_cgroup, p1.cg_infos,
                                               IsCgroupsV2(p1.cg_infos)),
                         proc_self_mountinfo, IsCgroupsV2(p1.cg_infos))

\* determine_type
determine_type(proc_cgroups, proc_self_cgroup, proc_self_mountinfo) ==
    AfterCgroupInfos(read_cgroup_infos(proc_cgroups), proc_self_cgroup, proc_self_mountinfo)

(***************************************************************************)
(* scanf.py, for the two-token formats the subsystems use.                 *)
(* "%s %d" compiles to (\S+)\s+([+-]?\d+), "%s %*d" and "%*s %d" to the    *)
(* same pattern with one group dropped; re.search takes the leftmost match:*)
(* the first whitespace-separated token that is followed by a token which  *)
(* starts with an optionally signed run of digits.                         *)
(***************************************************************************)
\* the end of the token that starts at i
TokenEnd(t, i) ==
    CHOOSE j \in i .. Len(t) :
        /\ j = Len(t) \/ IsSpace(CharAt(t, j + 1))
        /\ \A k \in i .. (j - 1) : ~IsSpace(CharAt(t, k + 1))

\* the whitespace-separated tokens of t from position i on
RECURSIVE TokensFrom(_, _)
TokensFrom(t, i) ==
    IF i > Len(t) THEN <<>>
    ELSE IF IsSpace(CharAt(t, i)) THEN TokensFrom(t, i + 1)
    ELSE <<SubSeq(t, i, TokenEnd(t, i))>> \o TokensFrom(t, TokenEnd(t, i) + 1)

DigitsStop(tok, from) ==
    CHOOSE j \in from .. (Len(tok) + 1) :
        /\ j = Len(tok) + 1 \/ ~IsDigit(CharAt(tok, j))
        /\ \A k \in from .. (j - 1) : IsDigit(CharAt(tok, k))

NumPrefixFrom(tok, from) ==
    IF DigitsStop(tok, from) = from THEN "" ELSE SubSeq(tok, 1, DigitsStop(tok, from) - 1)

\* the text [+-]?\d+ takes from the head of a token ("" when it does not match)
NumPrefix(tok) ==
    NumPrefixFrom(tok, IF Len(tok) > 0 /\ CharAt(tok, 1) \in {"+", "-"} THEN 2 ELSE 1)

NoMatch == [matched |-> FALSE, s |-> "", n |-> 0]

\* the leftmost pair of tokens the pattern matches
RECURSIVE ScanTokens(_)
ScanTokens(tokens) ==
    IF Len(tokens) < 2 THEN NoMatch
    ELSE IF NumPrefix(tokens[2]) # ""
         THEN [matched |-> TRUE, s |-> tokens[1], n |-> PyInt(NumPrefix(tokens[2])).n]
    ELSE ScanTokens(Tail(tokens))

\* scanf on a two-token format: [matched, s, n] with s the first token and n the
\* value of the second; matched is FALSE where scanf returns None
ScanTokenInt(line) == ScanTokens(TokensFrom(line, 1))

(***************************************************************************)
(* scanf.py in general: _scanf_compile turns the format into a sequence of *)
(* pattern elements, re.search finds the leftmost match, trying the longer *)
(* repetition first, and scanf casts the groups.  The table holds the      *)
(* tokens without a width; the float tokens are left out (no floats here). *)
(* An element is [token, kind, cast]: cast "" marks a pattern without a    *)
(* group (a %* token, or literal text).                                    *)
(***************************************************************************)
ScanfToken(token, kind, cast) == [token |-> token, kind |-> kind, cast |-> cast]

scanf_translate ==
    <<ScanfToken("%c", "c", "str"), ScanfToken("%*c", "c", ""),
      ScanfToken("%d", "d", "int"), ScanfToken("%i", "d", "int"),
      ScanfToken("%*d", "d", ""), ScanfToken("%*i", "d", ""),
      ScanfToken("%u", "u", "int"), ScanfToken("%*u", "u", ""),
      ScanfToken("%s", "s", "str"), ScanfToken("%*s", "s", ""),
      ScanfToken("%x", "x", "hex"), ScanfToken("%X", "X", "hex"),
      ScanfToken("%*x", "x", ""), ScanfToken("%*X", "X", ""),
      ScanfToken("%o", "o", "oct"), ScanfToken("%*o", "o", "")>>

\* a character of the format outside any token: itself, escaped where the
\* pattern syntax needs it; white space becomes \s+ (collapse_whitespace)
ScanfLiteral(char) == ScanfToken(char, IF IsSpace(char) THEN "ws" ELSE "lit", "")

\* the entries of the table whose token matches the format at position i
TokensAt(format_str, i) ==
    {k \in 1 .. Len(scanf_translate) :
        StartsWith(SubSeq(format_str, i, Len(format_str)), scanf_translate[k].token)}

\* the loop of _scanf_compile from position i on, hits the entries that match there
RECURSIVE CompileFrom(_, _, _)
CompileFrom(format_str, i, hits) ==
    IF i > Len(format_str) THEN <<>>
    ELSE IF hits # {}
         THEN <<scanf_translate[CHOOSE k \in hits : \A h \in hits : k <= h]>>
                \o CompileFrom(format_str,
                               i + Len(scanf_translate[CHOOSE k \in hits :
                                                          \A h \in hits : k <= h].token),
                               TokensAt(format_str,
                                        i + Len(scanf_translate[CHOOSE k \in hits :
                                                          \A h \in hits : k <= h].token)))
         ELSE <<ScanfLiteral(CharAt(format_str, i))>>
                \o CompileFrom(format_str, i + 1, TokensAt(format_str, i + 1))

\* re.sub(r'\s+', r'\\s+', format_pat): a run of white space is one \s+
RECURSIVE CollapseWhitespace(_)
CollapseWhitespace(elems) ==
    IF Len(elems) < 2 THEN elems
    ELSE IF elems[1].kind = "ws" /\ elems[2].kind = "ws"
         THEN CollapseWhitespace(Tail(elems))
         ELSE <<Head(elems)>> \o CollapseWhitespace(Tail(elems))

\* _scanf_compile: the elements of the pattern; the casts are those of the
\* elements with a group, in order
scanf_compile(format_str) ==
    CollapseWhitespace(CompileFrom(format_str, 1, TokensAt(format_str, 1)))

\* the character classes of the patterns: \s, \S, \d, [\dA-Za-f], [0-7]
HexClass ==
    {"0", "1", "2", "3", "4", "5", "6", "7", "8", "9", "a", "b", "c", "d", "e", "f",
     "A", "B", "C", "D", "E", "F", "G", "H", "I", "J", "K", "L", "M", "N", "O", "P",
     "Q", "R", "S", "T", "U", "V", "W", "X", "Y", "Z"}

InClass(class, char) ==
    CASE class = "ws" -> IsSpace(char)
      [] class = "s" -> ~IsSpace(char)
      [] class = "digit" -> IsDigit(char)
      [] class = "hex" -> char \in HexClass
      [] class = "oct" -> char \in {"0", "1", "2", "3", "4", "5", "6", "7"}

\* where the longest run of the class ends that starts after i characters
RunEnd(line, i, class) ==
    CHOOSE j \in i .. Len(line) :
        /\ \A k \in (i + 1) .. j : InClass(class, CharAt(line, k))
        /\ j = Len(line) \/ ~InClass(class, CharAt(line, j + 1))

\* hi, hi - 1, ..., lo: a repetition tries the longest match first
Down(hi, lo) == [k \in 1 .. (hi - lo + 1) |-> hi - k + 1]

\* the ends of the matches of one element after i characters, in the order the
\* regular expression engine tries them
Ends(e, line, i) ==
    CASE e.kind = "lit" ->
            IF i < Len(line) /\ CharAt(line, i + 1) = e.token THEN <<i + 1>> ELSE <<>>
      [] e.kind = "c" ->
            IF i < Len(line) /\ CharAt(line, i + 1) # "\n" THEN <<i + 1>> ELSE <<>>
      [] e.kind = "ws" -> Down(RunEnd(line, i, "ws"), i + 1)
      [] e.kind = "s" -> Down(RunEnd(line, i, "s"), i + 1)
      [] e.kind = "u" -> Down(RunEnd(line, i, "digit"), i + 1)
      [] e.kind = "d" ->
            IF i < Len(line) /\ CharAt(line, i + 1) \in {"+", "-"}
            THEN Down(RunEnd(line, i + 1, "digit"), i + 2)
            ELSE Down(RunEnd(line, i, "digit"), i + 1)
      [] e.kind \in {"x", "X"} ->
            IF i + 2 <= Len(line) /\ SubSeq(line, i + 1, i + 2) = "0" \o e.kind
            THEN Down(RunEnd(line, i + 2, "hex"), i + 3)
            ELSE <<>>
      [] e.kind = "o" ->
            IF i < Len(line) /\ CharAt(line, i + 1) = "0"
            THEN Down(RunEnd(line, i + 1, "oct"), i + 1)
            ELSE <<>>

NoGroups == [matched |-> FALSE, groups |-> <<>>]

\* the match of the elements after i characters: [matched, groups]
RECURSIVE MatchFrom(_, _, _)
RECURSIVE TryEnds(_, _, _, _)
RECURSIVE TryRest(_, _, _, _, _)
MatchFrom(elems, line, i) ==
    IF elems = <<>> THEN [matched |-> TRUE, groups |-> <<>>]
    ELSE TryEnds(Ends(Head(elems), line, i), elems, line, i)

\* the first of the ends from which the rest of the pattern matches
TryEnds(ends, elems, line, i) ==
    IF ends = <<>> THEN NoGroups
    ELSE TryRest(MatchFrom(Tail(elems), line, Head(ends)), ends, elems, line, i)

\* rest is the match of the rest of the pattern from the first of the ends
TryRest(rest, ends, elems, line, i) ==
    IF rest.matched
    THEN [matched |-> TRUE,
          groups |-> (IF Head(elems).cast # ""
                      THEN <<[cast |-> Head(elems).cast,
                              text |-> SubSeq(line, i + 1, Head(ends))]>>
                      ELSE <<>>) \o rest.groups]
    ELSE TryEnds(Tail(ends), elems, line, i)

\* format_re.search(line): the match at the leftmost start, here is the match
\* at the start i
RECURSIVE SearchFrom(_, _, _, _)
SearchFrom(here, elems, line, i) ==
    IF here.matched \/ i >= Len(line) THEN here
    ELSE SearchFrom(MatchFrom(elems, line, i + 1), elems, line, i + 1)

\* the value of a string of digits of the base
RECURSIVE BaseValue(_, _, _)
BaseValue(t, base, digits) ==
    IF Len(t) = 0 THEN 0
    ELSE base * BaseValue(SubSeq(t, 1, Len(t) - 1), base, digits)
            + ((CHOOSE d \in 1 .. Len(digits) : CharAt(t, Len(t)) \in digits[d]) - 1)

HexDigits ==
    <<{"0"}, {"1"}, {"2"}, {"3"}, {"4"}, {"5"}, {"6"}, {"7"}, {"8"}, {"9"},
      {"a", "A"}, {"b", "B"}, {"c", "C"}, {"d", "D"}, {"e", "E"}, {"f", "F"}>>

\* int(x, 16) on a text that starts with 0x or 0X
HexInt(text) ==
    IF \A k \in 3 .. Len(text) : \E d \in 1 .. 16 : CharAt(text, k) \in HexDigits[d]
    THEN RetInt(BaseValue(SubSeq(text, 3, Len(text)), 16, HexDigits))
    ELSE Raise("ValueError")

\* the cast of one group
ScanfCast(group) ==
    CASE group.cast = "str" -> RetStr(group.text)
      [] group.cast = "int" -> PyInt(group.text)
      [] group.cast = "hex" -> HexInt(group.text)
      [] group.cast = "oct" -> RetInt(BaseValue(group.text, 8, [d \in 1 .. 8 |-> {Digits[d]}]))

\* tuple([casts[i](groups[i]) ...]): the first cast that raises ends the call
ScanfValues(values) ==
    IF \E k \in 1 .. Len(values) : values[k].exc # ""
    THEN [exc |-> values[CHOOSE k \in 1 .. Len(values) :
                             /\ values[k].exc # ""
                             /\ \A h \in 1 .. (k - 1) : values[h].exc = ""].exc,
          matched |-> TRUE, values |-> <<>>]
    ELSE [exc |-> "", matched |-> TRUE, values |-> values]

\* scanf once the search is over
ScanfFound(found) ==
    IF ~found.matched THEN [exc |-> "", matched |-> FALSE, values |-> <<>>]
    ELSE ScanfValues([k \in 1 .. Len(found.groups) |-> ScanfCast(found.groups[k])])

\* scanf(format_str, line) over the compiled elements
ScanfOver(elems, line) == ScanfFound(SearchFrom(MatchFrom(elems, line, 0), elems, line, 0))

\* scanf(format_str, line): [exc, matched, values]
scanf(format_str, line) == ScanfOver(scanf_compile(format_str), line)

(***************************************************************************)
(* utils.py.  files maps the path of each parameter file to None (no such  *)
(* file) or Some(lines), each line with its line terminator.               *)
(***************************************************************************)
RECURSIVE JoinLines(_)
JoinLines(lines) ==
    IF lines = <<>> THEN ""
    ELSE IF Len(lines) = 1 THEN lines[1]
    ELSE lines[1] \o JoinLines(Tail(lines))

Exists(files, path) == path \in DOMAIN files /\ ~IsNone(files[path])

\* load(path): the stripped text of the file
load(files, path) ==
    IF ~Exists(files, path) THEN Raise("FileNotFoundError")
    ELSE RetStr(Strip(JoinLines(Get(files[path]))))

ScanLoaded(val) ==
    IF val.exc # "" THEN [exc |-> val.exc] @@ NoMatch
    ELSE [exc |-> ""] @@ ScanTokenInt(val.s)

\* load_scan(path, scan_format) for a two-token format: [exc, matched, s, n]
load_scan(files, path) == ScanLoaded(load(files, path))

\* return res[1] of load_multiline_scan; len(res) raises when scanf returned None
MultilineResult(res) == IF ~res.matched THEN Raise("TypeError") ELSE RetInt(res.n)

\* the loop of load_multiline_scan with scan_format "%s %d"
RECURSIVE MultilineLoop(_, _)
MultilineLoop(lines, match_line) ==
    IF lines = <<>> THEN RetNone
    ELSE IF Find(Head(lines), match_line) < 0 THEN MultilineLoop(Tail(lines), match_line)
    ELSE MultilineResult(ScanTokenInt(Head(lines)))

load_multiline_scan(files, path, match_line) ==
    IF ~Exists(files, path) THEN Raise("FileNotFoundError")
    ELSE MultilineLoop(Get(files[path]), match_line)

\* limit_from_str
limit_from_str(limit_str) ==
    IF limit_str = "max" THEN RetInt(NO_LIMIT) ELSE PyInt(limit_str)

\* int(x) of a call's outcome: the exception goes on, a str is parsed
IntOf(out) == IF out.exc # "" THEN out ELSE PyInt(out.s)

\* len(x): a TypeError for an int or None
PyLen(out) ==
    IF out.exc # "" THEN out
    ELSE IF out.kind = "str" THEN RetInt(Len(out.s))
    ELSE Raise("TypeError")

(***************************************************************************)
(* Controllers.  A controller is [subsystem_path, root, mount_point,       *)
(* cgroup_path, is_hierarchical]; a v1 controller keeps no cgroup_path, a  *)
(* v2 controller no root (mount_point is its mount_path), and only the v1  *)
(* memory controller uses is_hierarchical.                                 *)
(***************************************************************************)
\* str.replace(old, ""), old not empty
RECURSIVE RemoveAll(_, _)
RemoveAll(t, old) ==
    IF Find(t, old) < 0 THEN t
    ELSE SubSeq(t, 1, Find(t, old))
            \o RemoveAll(SubSeq(t, Find(t, old) + Len(old) + 1, Len(t)), old)

\* set_subsystem_path with the host case joining every cgroup path
V1SubsystemPathHostJoin(root, mount_point, cgroup_path) ==
    IF root = "/" THEN mount_point \o cgroup_path
    ELSE IF StartsWith(cgroup_path, root) /\ cgroup_path # root
         THEN mount_point \o RemoveAll(cgroup_path, root)
         ELSE mount_point

\* CgroupV1Controller.set_subsystem_path, for a known root and cgroup_path
V1SubsystemPath(root, mount_point, cgroup_path) ==
    IF root = "/"
    THEN (IF cgroup_path # "/" THEN mount_point \o cgroup_path ELSE mount_point)
    ELSE IF StartsWith(cgroup_path, root) /\ cgroup_path # root
         THEN mount_point \o RemoveAll(cgroup_path, root)
         ELSE mount_point

\* CgroupController.read_container_param, on an optional controller
read_container_param(files, controller, param_path) ==
    IF IsNone(controller) THEN Raise("AttributeError")
    ELSE load(files, PathJoin(Get(controller).subsystem_path, param_path))

Positive(v) == v.exc = "" /\ v.n > 0

\* CgroupV1MemoryController.uses_mem_hierarchy
uses_mem_hierarchy(files, controller) ==
    Positive(IntOf(read_container_param(files, Some(controller), "memory.use_hierarchy")))

\* self.is_hierarchical once CgroupV1MemoryController.__init__ has returned: the
\* assignment after super().__init__() overwrites what set_subsystem_path probed
IsHierarchicalAfterInit(probed) == FALSE

\* CgroupV1Controller.__init__: [exc, controller]; info is a CgroupInfo
CgroupV1Controller(info) ==
    IF IsNone(info.root_mount_path) \/ IsNone(info.cgroup_path)
    THEN [exc |-> "OSContainerError", controller |-> None]
    ELSE [exc |-> "",
          controller |->
              Some([subsystem_path |-> V1SubsystemPath(Get(info.root_mount_path),
                                                       Get(info.mount_path),
                                                       Get(info.cgroup_path)),
                    root |-> Get(info.root_mount_path),
                    mount_point |-> Get(info.mount_path),
                    cgroup_path |-> "",
                    is_hierarchical |-> FALSE])]

\* the memory controller's part of __init__, base what CgroupV1Controller built
MemoryControllerOf(files, base) ==
    IF base.exc # "" THEN base
    ELSE [base EXCEPT !.controller[1].is_hierarchical =
              IsHierarchicalAfterInit(uses_mem_hierarchy(files, Get(base.controller)))]

\* CgroupV1MemoryController.__init__: set_subsystem_path probes memory.use_hierarchy
CgroupV1MemoryController(files, info) == MemoryControllerOf(files, CgroupV1Controller(info))

\* CgroupV2Controller.__init__
CgroupV2Controller(mount_path, cgroup_path) ==
    IF IsNone(mount_path) \/ IsNone(cgroup_path)
    THEN [exc |-> "TypeError", controller |-> None]
    ELSE [exc |-> "",
          controller |->
              Some([subsystem_path |-> Get(mount_path) \o Get(cgroup_path),
                    root |-> "",
                    mount_point |-> Get(mount_path),
                    cgroup_path |-> Get(cgroup_path),
                    is_hierarchical |-> FALSE])]

NoSubsystem ==
    [cgroup_type |-> "", cpuset |-> None, cpu |-> None, cpuacct |-> None,
     memory |-> None, pids |-> None, unified |-> None]

Failed(exc) == [exc |-> exc, subsystem |-> NoSubsystem]

\* one controller of the v1 loop of build_cgroup_subsystem
BuildV1Controller(files, cg_infos, name) ==
    IF name \notin DOMAIN cg_infos \/ ~cg_infos[name].v1_data_complete
    THEN [exc |-> "", controller |-> None]
    ELSE IF name = SUBSYS_MEMORY THEN CgroupV1MemoryController(files, cg_infos[name])
    ELSE CgroupV1Controller(cg_infos[name])

\* CgroupV1Subsystem(cpuset, cpu, cpuacct, memory, pids), unless a constructor raised
V1SubsystemOf(cpuset, cpu, cpuacct, memory, pids) ==
    IF \E c \in {cpuset, cpu, cpuacct, memory, pids} : c.exc # ""
    THEN Failed("OSContainerError")
    ELSE [exc |-> "",
          subsystem |-> [cgroup_type |-> CGROUP_TYPE_V1,
                         cpuset |-> cpuset.controller,
                         cpu |-> cpu.controller,
                         cpuacct |-> cpuacct.controller,
                         memory |-> memory.controller,
                         pids |-> pids.controller,
                         unified |-> None]]

\* CgroupV2Subsystem(controller), unless the constructor raised
V2SubsystemOf(unified) ==
    IF unified.exc # "" THEN Failed(unified.exc)
    ELSE [exc |-> "",
          subsystem |-> [NoSubsystem EXCEPT !.cgroup_type = CGROUP_TYPE_V2,
                                            !.unified = unified.controller]]

\* build_cgroup_subsystem once determine_type has returned
BuildFrom(files, subsystem_info) ==
    IF subsystem_info.exc # "" THEN Failed(subsystem_info.exc)
    ELSE IF subsystem_info.cgroup_type = "" THEN Failed("OSContainerError")
    ELSE IF subsystem_info.cgroup_type = CGROUP_TYPE_V2
    THEN (IF SUBSYS_MEMORY \notin DOMAIN subsystem_info.cg_infos THEN Failed("KeyError")
          ELSE V2SubsystemOf(CgroupV2Controller(
                                 subsystem_info.cg_infos[SUBSYS_MEMORY].mount_path,
                                 subsystem_info.cg_infos[SUBSYS_MEMORY].cgroup_path)))
    ELSE V1SubsystemOf(BuildV1Controller(files, subsystem_info.cg_infos, SUBSYS_CPUSET),
                       BuildV1Controller(files, subsystem_info.cg_infos, SUBSYS_CPU),
                       BuildV1Controller(files, subsystem_info.cg_infos, SUBSYS_CPUACCT),
                       BuildV1Controller(files, subsystem_info.cg_infos, SUBSYS_MEMORY),
                       BuildV1Controller(files, subsystem_info.cg_infos, SUBSYS_PIDS))

\* build_cgroup_subsystem: [exc, subsystem]
build_cgroup_subsystem(files, proc_cgroups, proc_self_cgroup, proc_self_mountinfo) ==
    BuildFrom(files, determine_type(proc_cgroups, proc_self_cgroup, proc_self_mountinfo))

(***************************************************************************)
(* The subsystems.  A subsystem is [cgroup_type, cpuset, cpu, cpuacct,     *)
(* memory, pids, unified], each controller optional.  PhysMemory is        *)
(* os.sysconf('SC_PAGE_SIZE') * os.sysconf('SC_PHYS_PAGES').               *)
(***************************************************************************)
PhysMemory == 8

V1SharesAsRead(shares) == shares

V1SharesOf(shares) ==
    IF shares.exc # "" THEN shares
    ELSE IF shares.n = PER_CPU_SHARES THEN RetInt(NO_LIMIT)
    ELSE shares

\* CgroupV1Subsystem.cpu_shares
V1_cpu_shares(files, sub) ==
    V1SharesOf(IntOf(read_container_param(files, sub.cpu, "cpu.shares")))

\* CgroupV1Subsystem.cpu_quota
V1_cpu_quota(files, sub) == IntOf(read_container_param(files, sub.cpu, "cpu.cfs_quota_us"))

\* CgroupV1Subsystem.cpu_period
V1_cpu_period(files, sub) == IntOf(read_container_param(files, sub.cpu, "cpu.cfs_period_us"))

\* CgroupV1Subsystem.cpu_cpuset_cpus
V1_cpu_cpuset_cpus(files, sub) == read_container_param(files, sub.cpuset, "cpuset.cpus")

\* CgroupV1Subsystem.memory_usage_in_bytes
V1_memory_usage_in_bytes(files, sub) ==
    IntOf(read_container_param(files, sub.memory, "memory.usage_in_bytes"))

\* len(hier_memlimit_str) == 2 and what follows: load_multiline_scan returns an
\* int or None, and len() of either raises
HierarchicalLimitOf(length) == IF length.exc # "" THEN length ELSE RetInt(NO_LIMIT)

\* the hierarchical branch of CgroupV1Subsystem.memory_limit_in_bytes
V1_hierarchical_limit(files, sub) ==
    HierarchicalLimitOf(PyLen(
        load_multiline_scan(files, PathJoin(Get(sub.memory).subsystem_path, "memory.stat"),
                            "hierarchical_memory_limit")))

V1LimitOf(files, sub, memlimit) ==
    IF memlimit.exc # "" THEN memlimit
    ELSE IF memlimit.n >= PhysMemory
         THEN (IF Get(sub.memory).is_hierarchical
               THEN V1_hierarchical_limit(files, sub)
               ELSE RetInt(NO_LIMIT))
    ELSE memlimit

\* CgroupV1Subsystem.memory_limit_in_bytes
V1_memory_limit_in_bytes(files, sub) ==
    V1LimitOf(files, sub, IntOf(read_container_param(files, sub.memory, "memory.limit_in_bytes")))

\* int((262142 * shares - 1) / 9999.0) + 2, computed as 26 * shares plus
\* the quotient of the remainder (262142 = 26 * 9999 + 2168) to stay in 32 bits;
\* int() truncates toward zero
WeightScaled(shares) ==
    IF shares > 0
    THEN 26 * shares + ((2168 * shares - 1) \div 9999) + 2
    ELSE 2 - (26 * (-shares) + ((2168 * (-shares) + 1) \div 9999))

\* a variant that takes the upper multiple on a tie
ClosestMultipleTieUp(x) ==
    IF x - (x \div PER_CPU_SHARES) * PER_CPU_SHARES
          < CeilDiv(x, PER_CPU_SHARES) * PER_CPU_SHARES - x
    THEN (x \div PER_CPU_SHARES) * PER_CPU_SHARES
    ELSE CeilDiv(x, PER_CPU_SHARES) * PER_CPU_SHARES

\* the closest multiple of PER_CPU_SHARES, the lower one on a tie
ClosestMultiple(x) ==
    IF x - (x \div PER_CPU_SHARES) * PER_CPU_SHARES
          <= CeilDiv(x, PER_CPU_SHARES) * PER_CPU_SHARES - x
    THEN (x \div PER_CPU_SHARES) * PER_CPU_SHARES
    ELSE CeilDiv(x, PER_CPU_SHARES) * PER_CPU_SHARES

SharesOfScaled(x) == IF x <= PER_CPU_SHARES THEN x ELSE ClosestMultiple(x)

\* a variant without the test for the default weight
V2SharesAlwaysScaled(shares) ==
    IF shares.exc # "" THEN shares
    ELSE RetInt(SharesOfScaled(WeightScaled(shares.n)))

V2SharesOf(shares) ==
    IF shares.exc # "" THEN shares
    ELSE IF shares.n = 100 THEN RetInt(NO_LIMIT)
    ELSE RetInt(SharesOfScaled(WeightScaled(shares.n)))

\* CgroupV2Subsystem.cpu_shares
V2_cpu_shares(files, sub) ==
    V2SharesOf(IntOf(read_container_param(files, sub.unified, "cpu.weight")))

\* read_container_params_with_format(CPU_MAX, ...), on an optional controller
V2_cpu_max(files, sub) ==
    IF IsNone(sub.unified) THEN [exc |-> "AttributeError"] @@ NoMatch
    ELSE load_scan(files, PathJoin(Get(sub.unified).subsystem_path, "cpu.max"))

V2QuotaOf(cpu_quota_res) ==
    IF cpu_quota_res.exc # "" THEN Raise(cpu_quota_res.exc)
    ELSE IF ~cpu_quota_res.matched THEN Raise("TypeError")
    ELSE limit_from_str(cpu_quota_res.s)

\* CgroupV2Subsystem.cpu_quota: len() of the None scanf returns raises
V2_cpu_quota(files, sub) == V2QuotaOf(V2_cpu_max(files, sub))

V2PeriodOf(cpu_period_res) ==
    IF cpu_period_res.exc # "" THEN Raise(cpu_period_res.exc)
    ELSE IF ~cpu_period_res.matched THEN Raise("TypeError")
    ELSE RetInt(cpu_period_res.n)

\* CgroupV2Subsystem.cpu_period
V2_cpu_period(files, sub) == V2PeriodOf(V2_cpu_max(files, sub))

V2CpusetOf(files, sub, cpuset) ==
    IF cpuset.exc = "" /\ cpuset.s = ""
    THEN read_container_param(files, sub.unified, "cpuset.cpus.effective")
    ELSE cpuset

\* CgroupV2Subsystem.cpu_cpuset_cpus
V2_cpu_cpuset_cpus(files, sub) ==
    V2CpusetOf(files, sub, read_container_param(files, sub.unified, "cpuset.cpus"))

\* CgroupV2Subsystem.memory_usage_in_bytes
V2_memory_usage_in_bytes(files, sub) ==
    IntOf(read_container_param(files, sub.unified, "memory.current"))

V2LimitOf(memory_str) ==
    IF memory_str.exc # "" THEN memory_str ELSE limit_from_str(memory_str.s)

\* CgroupV2Subsystem.memory_limit_in_bytes
V2_memory_limit_in_bytes(files, sub) ==
    V2LimitOf(read_container_param(files, sub.unified, "memory.max"))

\* the calls through the CgroupSubsystem interface
cpu_shares(files, sub) ==
    IF sub.cgroup_type = CGROUP_TYPE_V2 THEN V2_cpu_shares(files, sub) ELSE V1_cpu_shares(files, sub)

cpu_quota(files, sub) ==
    IF sub.cgroup_type = CGROUP_TYPE_V2 THEN V2_cpu_quota(files, sub) ELSE V1_cpu_quota(files, sub)

cpu_period(files, sub) ==
    IF sub.cgroup_type = CGROUP_TYPE_V2 THEN V2_cpu_period(files, sub) ELSE V1_cpu_period(files, sub)

cpu_cpuset_cpus(files, sub) ==
    IF sub.cgroup_type = CGROUP_TYPE_V2 THEN V2_cpu_cpuset_cpus(files, sub)
    ELSE V1_cpu_cpuset_cpus(files, sub)

memory_usage_in_bytes(files, sub) ==
    IF sub.cgroup_type = CGROUP_TYPE_V2 THEN V2_memory_usage_in_bytes(files, sub)
    ELSE V1_memory_usage_in_bytes(files, sub)

memory_limit_in_bytes(files, sub) ==
    IF sub.cgroup_type = CGROUP_TYPE_V2 THEN V2_memory_limit_in_bytes(files, sub)
    ELSE V1_memory_limit_in_bytes(files, sub)

container_type(sub) == RetStr(sub.cgroup_type)

(***************************************************************************)
(* CgroupSubsystem.active_processor_count                                  *)
(***************************************************************************)
\* variants of the four steps below, to compare the algorithm against
QuotaCountAnySign(q, p) == IF p > 0 THEN CeilDiv(q, p) ELSE 0

QuotaCountBug(q, p) == IF q > NO_LIMIT /\ p > 0 THEN q \div p ELSE 0

\* quota_count: zero unless quota > NO_LIMIT and period > 0
QuotaCount(q, p) == IF q > NO_LIMIT /\ p > 0 THEN CeilDiv(q, p) ELSE 0

ShareCountBug(sh) == IF sh > NO_LIMIT THEN sh \div PER_CPU_SHARES ELSE 0

\* share_count: zero unless share > NO_LIMIT
ShareCount(sh) == IF sh > NO_LIMIT THEN CeilDiv(sh, PER_CPU_SHARES) ELSE 0

LimitCountSwapped(qc, sc, prefer, cpu_count) ==
    IF qc # 0 /\ sc # 0
    THEN (IF prefer THEN Min(qc, sc) ELSE qc)
    ELSE IF qc # 0 THEN qc
    ELSE IF sc # 0 THEN sc
    ELSE cpu_count

LimitCountNoHost(qc, sc, prefer, cpu_count) ==
    IF qc # 0 /\ sc # 0
    THEN (IF prefer THEN qc ELSE Min(qc, sc))
    ELSE IF qc # 0 THEN qc
    ELSE IF sc # 0 THEN sc
    ELSE 1

\* limit_count: cpu_count unless a count is nonzero
LimitCount(qc, sc, prefer, cpu_count) ==
    IF qc # 0 /\ sc # 0
    THEN (IF prefer THEN qc ELSE Min(qc, sc))
    ELSE IF qc # 0 THEN qc
    ELSE IF sc # 0 THEN sc
    ELSE cpu_count

ClampBug(cpu_count, limit_count) == limit_count

\* result = min(cpu_count, limit_count)
Clamp(cpu_count, limit_count) == Min(cpu_count, limit_count)

active_processor_count(q, p, sh, prefer, cpu_count) ==
    Clamp(cpu_count, LimitCount(QuotaCount(q, p), ShareCount(sh), prefer, cpu_count))

ApcOf(q, p, sh, prefer, cpu_count) ==
    IF q.exc # "" THEN q
    ELSE IF p.exc # "" THEN p
    ELSE IF sh.exc # "" THEN sh
    ELSE RetInt(active_processor_count(q.n, p.n, sh.n, prefer, cpu_count))

\* CgroupSubsystem.active_processor_count on a built subsystem: the three reads
\* in the order of the code, then the arithmetic
Sub_active_processor_count(files, sub, prefer, cpu_count) ==
    ApcOf(cpu_quota(files, sub), cpu_period(files, sub), cpu_shares(files, sub),
          prefer, cpu_count)

(***************************************************************************)
(* os_container.py: the facade.  self is [containerized, cgroup_subsystem, *)
(* memory_limit]; an attribute that was never assigned is None.  A call    *)
(* yields [out, touched]: its outcome and whether it went on to the        *)
(* subsystem.                                                              *)
(***************************************************************************)
\* an accessor without the check
ValidateSkipped(self) == RetNone

\* OSContainer._validate_containerized
validate_containerized(self) ==
    IF ~self.containerized THEN Raise("OSContainerError") ELSE RetNone

\* the body of an accessor once _validate_containerized has returned or raised
Validated(v, self, out) ==
    IF v.exc # "" THEN [out |-> v, touched |-> FALSE]
    ELSE IF IsNone(self.cgroup_subsystem)
         THEN [out |-> Raise("AttributeError"), touched |-> TRUE]
    ELSE [out |-> out, touched |-> TRUE]

\* self._validate_containerized(); return self.cgroup_subsystem.<accessor>()
OnSubsystem(self, out) == Validated(validate_containerized(self), self, out)

Subsystem(self) == Get(self.cgroup_subsystem)

\* OSContainer.active_processor_count
F_active_processor_count(self, files, prefer, cpu_count) ==
    OnSubsystem(self, Sub_active_processor_count(files, Subsystem(self), prefer, cpu_count))

\* OSContainer.container_type
F_container_type(self, files) == OnSubsystem(self, container_type(Subsystem(self)))

\* OSContainer.cpu_quota
F_cpu_quota(self, files) == OnSubsystem(self, cpu_quota(files, Subsystem(self)))

\* OSContainer.cpu_period
F_cpu_period(self, files) == OnSubsystem(self, cpu_period(files, Subsystem(self)))

\* OSContainer.cpu_shares
F_cpu_shares(self, files) == OnSubsystem(self, cpu_shares(files, Subsystem(self)))

\* the call without the try/except
CpusetPropagates(out) == out

\* the try/except of OSContainer.cpu_cpuset_cpus: any exception yields None
CpusetGuard(out) == IF out.exc # "" THEN RetNone ELSE out

\* OSContainer.cpu_cpuset_cpus
F_cpu_cpuset_cpus(self, files) ==
    OnSubsystem(self, CpusetGuard(cpu_cpuset_cpus(files, Subsystem(self))))

\* OSContainer.memory_usage_in_bytes
F_memory_usage_in_bytes(self, files) ==
    OnSubsystem(self, memory_usage_in_bytes(files, Subsystem(self)))

\* the limit read from the subsystem at every call
CachedLimitReread(self, files) ==
    IF IsNone(self.cgroup_subsystem) THEN Raise("AttributeError")
    ELSE memory_limit_in_bytes(files, Subsystem(self))

\* return self.memory_limit
CachedLimit(self, files) ==
    IF IsNone(self.memory_limit) THEN Raise("AttributeError")
    ELSE RetInt(Get(self.memory_limit))

ValidatedLimit(v, out) ==
    IF v.exc # "" THEN [out |-> v, touched |-> FALSE] ELSE [out |-> out, touched |-> FALSE]

\* OSContainer.memory_limit_in_bytes
F_memory_limit_in_bytes(self, files) ==
    ValidatedLimit(validate_containerized(self), CachedLimit(self, files))

\* OSContainer.is_containerized
F_is_containerized(self) ==
    [out |-> RetInt(IF self.containerized THEN 1 ELSE 0), touched |-> FALSE]

Unset == [containerized |-> FALSE, cgroup_subsystem |-> None, memory_limit |-> None]

\* the rest of OSContainer.__init__ once the subsystem is built: the eager read,
\* outside the try block
InitRead(subsystem, limit) ==
    IF limit.exc # ""
    THEN [exc |-> limit.exc, read |-> limit,
          self |-> [Unset EXCEPT !.cgroup_subsystem = Some(subsystem)]]
    ELSE [exc |-> "", read |-> limit,
          self |-> [containerized |-> TRUE,
                    cgroup_subsystem |-> Some(subsystem),
                    memory_limit |-> Some(limit.n)]]

InitFromFlagFirst(files, built) ==
    IF built.exc # ""
    THEN [exc |-> "", read |-> NoCall, self |-> [Unset EXCEPT !.containerized = TRUE]]
    ELSE InitRead(built.subsystem, memory_limit_in_bytes(files, built.subsystem))

\* OSContainer.__init__ once build_cgroup_subsystem has returned or raised
InitFrom(files, built) ==
    IF built.exc # "" THEN [exc |-> "", read |-> NoCall, self |-> Unset]
    ELSE InitRead(built.subsystem, memory_limit_in_bytes(files, built.subsystem))

\* OSContainer.__init__: [exc, read, self], read what the eager
\* memory_limit_in_bytes() call came to
OSContainer_init(files, proc) ==
    InitFrom(files, build_cgroup_subsystem(files, proc.proc_cgroups, proc.proc_self_cgroup,
                                           proc.proc_self_mountinfo))

VARIABLES
    \* ---- the mocked subsystem of the active_processor_count tests ----
    quota,                  \* what cpu_quota() returns
    period,                 \* what cpu_period() returns
    share,                  \* what cpu_shares() returns
    host_cpu_count,         \* the host CPU count (injected, or the affinity set's size)
    prefer_container_quota, \* the flag of the last call
    apc_result,             \* the value the last call returned (0: not called)
    apc_pc,                 \* "off" | "ready" | "done"
    \* ---- the kernel's files ----
    proc,                   \* [proc_cgroups, proc_self_cgroup, proc_self_mountinfo]
    files,                  \* the parameter files: path -> None | Some(lines)
    \* ---- one OSContainer ----
    pc,                     \* "off" | "new" | "ready" | "raised" (the constructor raised)
    containerized,          \* self._containerized
    cgroup_subsystem,       \* self.cgroup_subsystem, None until assigned
    memory_limit,           \* self.memory_limit, None until assigned
    read_at_construction,   \* what the constructor's memory_limit_in_bytes() returned
    last,                   \* the last event: [name, out, touched]
    \* ---- one call of determine_type ----
    topology,               \* its frame: [pc, cg_infos, is_cgroupsV2, the two flags of the
                            \* mountinfo pass, opened (the proc files opened so far), result]
    \* ---- one call of scanf ----
    scan                    \* its frame: [pc, format_str, line, result]

apcVars == <<quota, period, share, prefer_container_quota, apc_result, apc_pc>>
envVars == <<proc, files>>
facadeVars == <<pc, containerized, cgroup_subsystem, memory_limit, read_at_construction>>

vars == <<apcVars, host_cpu_count, envVars, facadeVars, last, topology, scan>>

Self == [containerized |-> containerized, cgroup_subsystem |-> cgroup_subsystem,
         memory_limit |-> memory_limit]

NoEvent == [name |-> "", out |-> NoCall, touched |-> FALSE]

\* what scanf returns: matched is FALSE for None, values the tuple
ScanResult(exc, matched, values) == [exc |-> exc, matched |-> matched, values |-> values]

\* the frame of scanf(format_str, line) at position at, nothing returned yet
ScanAt(at, format_str, line) ==
    [pc |-> at, format_str |-> format_str, line |-> line,
     result |-> ScanResult("", FALSE, <<>>)]

\* the frame of determine_type at position at, nothing read yet
TopologyAt(at) ==
    [pc |-> at, cg_infos |-> EmptyDict, is_cgroupsV2 |-> FALSE,
     cgroupv2_mount_point_found |-> FALSE, any_cgroup_mounts_found |-> FALSE,
     opened |-> {}, result |-> NoType("")]

(***************************************************************************)
(* The kernel files the model starts from.                                 *)
(***************************************************************************)
CgroupsLine(name, hierarchy_id, enabled) ==
    [name |-> name, hierarchy_id |-> hierarchy_id, enabled |-> enabled]

SelfCgroupLine(hierarchy_id, controllers, cgroup_path) ==
    [hierarchy_id |-> hierarchy_id, controllers |-> controllers, cgroup_path |-> cgroup_path]

\* a line without optional fields
MountLine(root, mount, fs_type, cgroups) ==
    [root |-> root, mount |-> mount, fs_type |-> fs_type, cgroups |-> cgroups,
     optional |-> <<>>]

ProcFiles(proc_cgroups, proc_self_cgroup, proc_self_mountinfo) ==
    [proc_cgroups |-> proc_cgroups, proc_self_cgroup |-> proc_self_cgroup,
     proc_self_mountinfo |-> proc_self_mountinfo]

\* a container on the unified hierarchy
ProcV2 ==
    ProcFiles(
        Some(<<CgroupsLine("cpuset", 0, 1), CgroupsLine("cpu", 0, 1), CgroupsLine("cpuacct", 0, 1),
               CgroupsLine("blkio", 0, 1), CgroupsLine("memory", 0, 1), CgroupsLine("pids", 0, 1)>>),
        Some(<<SelfCgroupLine(0, <<"">>, "/")>>),
        Some(<<MountLine("/", "/proc", "proc", <<"rw">>),
               MountLine("/", "/sys/fs/cgroup", "cgroup2", <<"rw">>)>>))

V1Cgroups(memory_enabled) ==
    Some(<<CgroupsLine("cpuset", 3, 1), CgroupsLine("cpu", 2, 1), CgroupsLine("cpuacct", 2, 1),
           CgroupsLine("blkio", 6, 1), CgroupsLine("memory", 4, memory_enabled),
           CgroupsLine("pids", 5, 1)>>)

V1SelfCgroup(cgroup_path) ==
    Some(<<SelfCgroupLine(5, <<"pids">>, cgroup_path),
           SelfCgroupLine(4, <<"memory">>, cgroup_path),
           SelfCgroupLine(3, <<"cpuset">>, cgroup_path),
           SelfCgroupLine(2, <<"cpu", "cpuacct">>, cgroup_path),
           SelfCgroupLine(1, <<"name=systemd">>, cgroup_path)>>)

V1Mounts(root) ==
    Some(<<MountLine("/", "/proc", "proc", <<"rw">>),
           MountLine(root, "/sys/fs/cgroup/cpuset", "cgroup", <<"rw", "cpuset">>),
           MountLine(root, "/sys/fs/cgroup/cpu,cpuacct", "cgroup", <<"rw", "cpu", "cpuacct">>),
           MountLine(root, "/sys/fs/cgroup/memory", "cgroup", <<"rw", "memory">>),
           MountLine(root, "/sys/fs/cgroup/pids", "cgroup", <<"rw", "pids">>)>>)

\* a Docker container on the legacy hierarchy: the mounts' root is the cgroup path
ProcV1Docker == ProcFiles(V1Cgroups(1), V1SelfCgroup("/docker/abc"), V1Mounts("/docker/abc"))

\* a host process on the legacy hierarchy
ProcV1Host == ProcFiles(V1Cgroups(1), V1SelfCgroup("/user.slice"), V1Mounts("/"))

\* the memory controller disabled at the kernel level
ProcV1Disabled == ProcFiles(V1Cgroups(0), V1SelfCgroup("/docker/abc"), V1Mounts("/docker/abc"))

\* no cgroup file system mounted
ProcNoMounts ==
    ProcFiles(V1Cgroups(1), V1SelfCgroup("/"), Some(<<MountLine("/", "/proc", "proc", <<"rw">>)>>))

\* no /proc/cgroups
ProcMissing == ProcFiles(None, None, None)

Text(line) == Some(<<line>>)

V1LimitChoices == {None, Text("4\n"), Text("9\n")}
V2LimitChoices == {None, Text("4\n"), Text("max\n")}
V1CpusetChoices == {None, Text("0-3\n")}
V2CpusetChoices == {None, Text("\n"), Text("0-1\n")}
V1Files(dir, limit, hierarchy, stat, cpuset, shares, cfs_quota) ==
    [path \in {"/sys/fs/cgroup/memory" \o dir \o "/memory.limit_in_bytes",
               "/sys/fs/cgroup/memory" \o dir \o "/memory.use_hierarchy",
               "/sys/fs/cgroup/memory" \o dir \o "/memory.stat",
               "/sys/fs/cgroup/memory" \o dir \o "/memory.usage_in_bytes",
               "/sys/fs/cgroup/cpuset" \o dir \o "/cpuset.cpus",
               "/sys/fs/cgroup/cpu,cpuacct" \o dir \o "/cpu.shares",
               "/sys/fs/cgroup/cpu,cpuacct" \o dir \o "/cpu.cfs_quota_us",
               "/sys/fs/cgroup/cpu,cpuacct" \o dir \o "/cpu.cfs_period_us"} |->
        IF EndsWith(path, "/memory.limit_in_bytes") THEN limit
        ELSE IF EndsWith(path, "/memory.use_hierarchy") THEN hierarchy
        ELSE IF EndsWith(path, "/memory.stat") THEN stat
        ELSE IF EndsWith(path, "/memory.usage_in_bytes") THEN Text("3\n")
        ELSE IF EndsWith(path, "/cpuset.cpus") THEN cpuset
        ELSE IF EndsWith(path, "/cpu.shares") THEN shares
        ELSE IF EndsWith(path, "/cpu.cfs_quota_us") THEN cfs_quota
        ELSE Text("100000\n")]

V2Files(limit, cpuset, effective, weight, cpu_max) ==
    [path \in {"/sys/fs/cgroup/memory.max", "/sys/fs/cgroup/memory.current",
               "/sys/fs/cgroup/cpuset.cpus", "/sys/fs/cgroup/cpuset.cpus.effective",
               "/sys/fs/cgroup/cpu.weight", "/sys/fs/cgroup/cpu.max"} |->
        IF EndsWith(path, "/memory.max") THEN limit
        ELSE IF EndsWith(path, "/memory.current") THEN Text("3\n")
        ELSE IF EndsWith(path, "/cpuset.cpus") THEN cpuset
        ELSE IF EndsWith(path, "/cpuset.cpus.effective") THEN effective
        ELSE IF EndsWith(path, "/cpu.weight") THEN weight
        ELSE cpu_max]

NoFiles == [path \in {} |-> None]

\* what the kernel may write to a file later
LaterChoices(path) ==
    IF EndsWith(path, "/memory.limit_in_bytes") THEN V1LimitChoices
    ELSE IF EndsWith(path, "/memory.max") THEN V2LimitChoices
    ELSE IF EndsWith(path, "/cpuset.cpus") /\ StartsWith(path, "/sys/fs/cgroup/cpuset/")
         THEN V1CpusetChoices
    ELSE IF EndsWith(path, "/cpuset.cpus") THEN V2CpusetChoices
    ELSE {}

EnvInit ==
    \/ /\ proc = ProcV2
       /\ \E limit \in V2LimitChoices, cpuset \in V2CpusetChoices,
             effective \in {None, Text("0-3\n")},
             weight \in {Text("100\n"), Text("79\n")},
             cpu_max \in {Text("max 100000\n"), Text("150000 100000\n")} :
            files = V2Files(limit, cpuset, effective, weight, cpu_max)
    \/ /\ \E limit \in V1LimitChoices, cpuset \in V1CpusetChoices,
             hierarchy \in {None, Text("0\n"), Text("1\n")},
             stat \in {Some(<<"cache 1\n">>),
                       Some(<<"cache 1\n", "hierarchical_memory_limit 5\n">>),
                       Some(<<"cache 1\n", "hierarchical_memory_limit 9\n">>)},
             shares \in {Text("1024\n"), Text("2049\n")},
             cfs_quota \in {Text("-1\n"), Text("150000\n")} :
            \/ proc = ProcV1Docker
               /\ files = V1Files("", limit, hierarchy, stat, cpuset, shares, cfs_quota)
            \/ proc = ProcV1Host
               /\ files = V1Files("/user.slice", limit, hierarchy, stat, cpuset, shares, cfs_quota)
    \/ /\ proc \in {ProcV1Disabled, ProcNoMounts, ProcMissing}
       /\ files = NoFiles

Init ==
    /\ quota = NO_LIMIT
    /\ period = NO_LIMIT
    /\ share = NO_LIMIT
    /\ prefer_container_quota = FALSE
    /\ apc_result = 0
    /\ apc_pc = "off"
    /\ host_cpu_count \in {1, MaxHostCpus}
    /\ EnvInit
    /\ pc = "new"
    /\ containerized = FALSE
    /\ cgroup_subsystem = None
    /\ memory_limit = None
    /\ read_at_construction = NoCall
    /\ last = NoEvent
    /\ topology = TopologyAt("off")
    /\ scan = ScanAt("off", "", "")

\* the state OSContainer() leaves, r what __init__ came to
Constructed(r) ==
    /\ pc' = IF r.exc # "" THEN "raised" ELSE "ready"
    /\ containerized' = r.self.containerized
    /\ cgroup_subsystem' = r.self.cgroup_subsystem
    /\ memory_limit' = r.self.memory_limit
    /\ read_at_construction' = r.read
    /\ last' = [name |-> "OSContainer",
                out |-> IF r.exc # "" THEN Raise(r.exc) ELSE RetNone,
                touched |-> ~IsNone(r.self.cgroup_subsystem)]

\* OSContainer()
Construct ==
    /\ pc = "new"
    /\ Constructed(OSContainer_init(files, proc))
    /\ UNCHANGED <<apcVars, host_cpu_count, envVars, topology, scan>>

\* one call of an accessor on the constructed facade
Called(name, r) ==
    /\ pc = "ready"
    /\ last' = [name |-> name, out |-> r.out, touched |-> r.touched]
    /\ UNCHANGED <<apcVars, host_cpu_count, envVars, facadeVars, topology, scan>>

CallActiveProcessorCount ==
    \E prefer \in BOOLEAN :
        Called("active_processor_count",
               F_active_processor_count(Self, files, prefer, host_cpu_count))

CallContainerType == Called("container_type", F_container_type(Self, files))

CallCpuQuota == Called("cpu_quota", F_cpu_quota(Self, files))

CallCpuPeriod == Called("cpu_period", F_cpu_period(Self, files))

CallCpuShares == Called("cpu_shares", F_cpu_shares(Self, files))

CallCpuCpusetCpus == Called("cpu_cpuset_cpus", F_cpu_cpuset_cpus(Self, files))

CallMemoryUsageInBytes == Called("memory_usage_in_bytes", F_memory_usage_in_bytes(Self, files))

CallMemoryLimitInBytes == Called("memory_limit_in_bytes", F_memory_limit_in_bytes(Self, files))

CallIsContainerized == Called("is_containerized", F_is_containerized(Self))

\* the kernel rewrites, creates or removes a limit file or a cpuset file
KernelWrites ==
    /\ \E path \in DOMAIN files :
        \E content \in LaterChoices(path) \ {files[path]} :
            files' = [files EXCEPT ![path] = content]
    /\ last' = [NoEvent EXCEPT !.name = "kernel"]
    /\ UNCHANGED <<apcVars, host_cpu_count, proc, facadeVars, topology, scan>>

Next ==
    \/ Construct
    \/ CallActiveProcessorCount
    \/ CallContainerType
    \/ CallCpuQuota
    \/ CallCpuPeriod
    \/ CallCpuShares
    \/ CallCpuCpusetCpus
    \/ CallMemoryUsageInBytes
    \/ CallMemoryLimitInBytes
    \/ CallIsContainerized
    \/ KernelWrites

Spec == Init /\ [][Next]_vars

(***************************************************************************)
(* active_processor_count on a mocked subsystem, as the tests call it.     *)
(***************************************************************************)
\* a mocked subsystem: cpu_quota, cpu_period and cpu_shares return fixed values,
\* among them no limit, zero, values below no limit and the multiples of
\* PER_CPU_SHARES with their neighbours
ApcInit ==
    /\ quota \in (NO_LIMIT - 1) .. MaxQuota
    /\ period \in -1 .. MaxPeriod
    /\ share \in {NO_LIMIT - 1, NO_LIMIT, 0}
                    \cup UNION {{n * PER_CPU_SHARES - 1, n * PER_CPU_SHARES,
                                 n * PER_CPU_SHARES + 1} : n \in 1 .. MaxShareCpus}
    /\ host_cpu_count \in 1 .. MaxHostCpus
    /\ prefer_container_quota = FALSE
    /\ apc_result = 0
    /\ apc_pc = "ready"
    /\ proc = ProcMissing
    /\ files = NoFiles
    /\ pc = "off"
    /\ containerized = FALSE
    /\ cgroup_subsystem = None
    /\ memory_limit = None
    /\ read_at_construction = NoCall
    /\ last = NoEvent
    /\ topology = TopologyAt("off")
    /\ scan = ScanAt("off", "", "")

\* one call of active_processor_count(prefer, host_cpu_count) on the mocked subsystem
ActiveProcessorCount ==
    /\ apc_pc = "ready"
    /\ \E prefer \in BOOLEAN :
        /\ prefer_container_quota' = prefer
        /\ apc_result' = active_processor_count(quota, period, share, prefer, host_cpu_count)
    /\ apc_pc' = "done"
    /\ UNCHANGED <<quota, period, share, host_cpu_count, envVars, facadeVars, last, topology, scan>>

SpecApc == ApcInit /\ [][ActiveProcessorCount]_vars

\* C1: active_processor_count never returns more than the host CPU count,
\* whatever quota, period, shares and prefer_container_quota are.
C1_AtMostHost == apc_pc = "done" => apc_result <= host_cpu_count

C1_Witness ==
    /\ apc_pc = "done"
    /\ quota > host_cpu_count * period
    /\ period > 0
    /\ apc_result = host_cpu_count

\* n is the ceiling of a / b (b > 0): the least integer n with n * b >= a
IsCeil(n, a, b) == n * b >= a /\ (n - 1) * b < a

CeilRange == 0 .. (MaxQuota + MaxShareCpus + 2)

\* C3 as stated: with shares at no limit, every quota >= 0 and period > 0 give
\* min(host_cpu_count, ceil(quota / period)).
C3_QuotaOnlyFromZero ==
    (apc_pc = "done" /\ share = NO_LIMIT /\ quota >= 0 /\ period > 0)
        => \E n \in CeilRange :
              IsCeil(n, quota, period) /\ apc_result = Min(host_cpu_count, n)

\* C3 amended: with shares at no limit, every quota > 0 and period > 0 give
\* min(host_cpu_count, ceil(quota / period)).
C3_QuotaOnly ==
    (apc_pc = "done" /\ share = NO_LIMIT /\ quota > 0 /\ period > 0)
        => \E n \in CeilRange :
              IsCeil(n, quota, period) /\ apc_result = Min(host_cpu_count, n)

C3_Witness ==
    /\ apc_pc = "done" /\ share = NO_LIMIT
    /\ quota = 3 /\ period = 2
    /\ host_cpu_count > 2
    /\ apc_result = 2

\* C4: with quota at no limit, every shares value > 0 gives
\* min(host_cpu_count, ceil(shares / 1024)).
C4_SharesOnly ==
    (apc_pc = "done" /\ quota = NO_LIMIT /\ share > 0)
        => \E n \in CeilRange :
              IsCeil(n, share, PER_CPU_SHARES) /\ apc_result = Min(host_cpu_count, n)

C4_Witness ==
    /\ apc_pc = "done" /\ quota = NO_LIMIT
    /\ share = PER_CPU_SHARES + 1
    /\ host_cpu_count > 2
    /\ apc_result = 2

\* C5: when the quota count and the share count are both nonzero, the result is
\* min(host, quota_count) with prefer_container_quota and
\* min(host, quota_count, share_count) without it.
C5_BothSet ==
    (apc_pc = "done" /\ quota > NO_LIMIT /\ period > 0 /\ share > NO_LIMIT)
        => \E qc, sc \in CeilRange :
              /\ IsCeil(qc, quota, period)
              /\ IsCeil(sc, share, PER_CPU_SHARES)
              /\ (qc # 0 /\ sc # 0) =>
                    apc_result = IF prefer_container_quota
                                 THEN Min(host_cpu_count, qc)
                                 ELSE Min(host_cpu_count, Min(qc, sc))

\* prefer_container_quota wins although the share count is smaller
C5_Witness ==
    /\ apc_pc = "done" /\ prefer_container_quota
    /\ quota = 3 /\ period = 1 /\ share = PER_CPU_SHARES - 1
    /\ host_cpu_count > 3
    /\ apc_result = 3

\* C6: with no quota count (quota at no limit or period <= 0) and shares at no
\* limit, the result is the host CPU count, whatever prefer_container_quota is.
C6_NoLimits ==
    (apc_pc = "done" /\ (quota = NO_LIMIT \/ period <= 0) /\ share = NO_LIMIT)
        => apc_result = host_cpu_count

C6_Witness ==
    /\ apc_pc = "done" /\ prefer_container_quota
    /\ quota > 0 /\ period = 0 /\ share = NO_LIMIT
    /\ host_cpu_count > 1
    /\ apc_result = host_cpu_count

\* C2 as stated: constructing OSContainer never raises; when topology
\* resolution, subsystem construction or the eager memory-limit read fails,
\* construction completes and is_containerized() is False.
C2_ConstructionNeverRaises ==
    last.name = "OSContainer"
        => /\ last.out.exc = ""
           /\ (IsNone(cgroup_subsystem) \/ read_at_construction.exc # "") => ~containerized

\* C7 as stated: on a v1 subsystem with memory.limit_in_bytes at or above the
\* physical-memory ceiling, memory.use_hierarchy > 0 and a
\* hierarchical_memory_limit in memory.stat below the ceiling, the subsystem's
\* memory_limit_in_bytes() returns the hierarchical value.
C7_HierarchicalFallback ==
    (/\ last.name = "OSContainer"
     /\ ~IsNone(cgroup_subsystem)
     /\ Subsystem(Self).cgroup_type = CGROUP_TYPE_V1
     /\ ~IsNone(Subsystem(Self).memory))
        => \A h \in 0 .. (PhysMemory - 1) :
              (/\ IntOf(read_container_param(files, Subsystem(Self).memory,
                                             "memory.limit_in_bytes")).exc = ""
               /\ IntOf(read_container_param(files, Subsystem(Self).memory,
                                             "memory.limit_in_bytes")).n >= PhysMemory
               /\ uses_mem_hierarchy(files, Get(Subsystem(Self).memory))
               /\ load_multiline_scan(files,
                                      PathJoin(Get(Subsystem(Self).memory).subsystem_path,
                                               "memory.stat"),
                                      "hierarchical_memory_limit") = RetInt(h))
                  => memory_limit_in_bytes(files, Subsystem(Self)) = RetInt(h)

AccessorNames ==
    {"active_processor_count", "container_type", "cpu_quota", "cpu_period", "cpu_shares",
     "cpu_cpuset_cpus", "memory_usage_in_bytes", "memory_limit_in_bytes"}

\* C8: on a facade that is not containerized every accessor raises the
\* OSContainerError of _validate_containerized without going on to the
\* subsystem, and is_containerized() never raises.
C8_NotContainerized ==
    /\ (pc = "ready" /\ ~containerized /\ last.name \in AccessorNames)
          => (last.out = Raise("OSContainerError") /\ ~last.touched)
    /\ last.name = "is_containerized"
          => (last.out.exc = "" /\ last.out.n = (IF containerized THEN 1 ELSE 0))

C8_Witness ==
    /\ pc = "ready" /\ ~containerized
    /\ proc = ProcV1Disabled
    /\ last.name = "memory_limit_in_bytes"
    /\ last.out = Raise("OSContainerError")

\* C9: after a successful construction every call of the facade's
\* memory_limit_in_bytes() returns the value read at construction, whatever has
\* been written to the limit file since.
C9_LimitReadOnce ==
    (pc = "ready" /\ containerized /\ last.name = "memory_limit_in_bytes")
        => last.out = read_at_construction

\* the limit file has changed since construction, the call returned the old value
C9_Witness ==
    /\ pc = "ready" /\ containerized
    /\ last.name = "memory_limit_in_bytes"
    /\ last.out = read_at_construction
    /\ memory_limit_in_bytes(files, Subsystem(Self)) # read_at_construction

\* C10: on a containerized facade cpu_cpuset_cpus() never raises; when the
\* subsystem's cpuset read fails it returns None.
C10_CpusetNeverRaises ==
    (pc = "ready" /\ containerized /\ last.name = "cpu_cpuset_cpus")
        => /\ last.out.exc = ""
           /\ cpu_cpuset_cpus(files, Subsystem(Self)).exc # "" => last.out = RetNone
           /\ cpu_cpuset_cpus(files, Subsystem(Self)).exc = ""
                 => last.out = cpu_cpuset_cpus(files, Subsystem(Self))

\* the cpuset file is missing and the call returned None
C10_Witness ==
    /\ pc = "ready" /\ containerized
    /\ last.name = "cpu_cpuset_cpus"
    /\ cpu_cpuset_cpus(files, Subsystem(Self)).exc = "FileNotFoundError"
    /\ last.out = RetNone

(***************************************************************************)
(* The CPU accessors of a built subsystem, over the contents of cpu.shares *)
(* (v1), cpu.weight and cpu.max (v2).                                      *)
(***************************************************************************)
MaxWeight == 10000

\* the decimal text of a natural number, as the kernel writes it
RECURSIVE DecimalText(_)
DecimalText(n) ==
    IF n < 10 THEN Digits[n + 1] ELSE DecimalText(n \div 10) \o Digits[(n % 10) + 1]

\* the contents of cpu.max: the two forms the kernel writes, then contents
\* that lack the quota or the period
CpuMaxForms ==
    {Text("max 100000\n"), Text("150000 100000\n"),
     Text("max\n"), Text("100000\n"), Text("max max\n"), Text("\n")}

ReadInit ==
    /\ quota = NO_LIMIT
    /\ period = NO_LIMIT
    /\ share = NO_LIMIT
    /\ prefer_container_quota = FALSE
    /\ apc_result = 0
    /\ apc_pc = "off"
    /\ \/ /\ proc = ProcV2
          /\ host_cpu_count = 1
          /\ \/ \E w \in 1 .. MaxWeight :
                   files = V2Files(Text("max\n"), None, None,
                                   Text(DecimalText(w) \o "\n"), Text("max 100000\n"))
             \/ \E cpu_max \in CpuMaxForms :
                   files = V2Files(Text("max\n"), None, None, Text("100\n"), cpu_max)
       \/ /\ proc = ProcV1Host
          /\ \E s \in 1 .. MaxWeight :
                /\ host_cpu_count \in (IF s <= 2 * PER_CPU_SHARES THEN {2, MaxHostCpus} ELSE {2})
                /\ files = V1Files("/user.slice", Text("4\n"), None, Text("cache 1\n"), None,
                                   Text(DecimalText(s) \o "\n"), Text("-1\n"))
    /\ cgroup_subsystem =
          Some(build_cgroup_subsystem(files, proc.proc_cgroups, proc.proc_self_cgroup,
                                      proc.proc_self_mountinfo).subsystem)
    /\ pc = "subsystem"
    /\ containerized = FALSE
    /\ memory_limit = None
    /\ read_at_construction = NoCall
    /\ last = NoEvent
    /\ topology = TopologyAt("off")
    /\ scan = ScanAt("off", "", "")

\* one call on the subsystem itself
Read(name, out) ==
    /\ pc = "subsystem"
    /\ last' = [name |-> name, out |-> out, touched |-> TRUE]
    /\ UNCHANGED <<apcVars, host_cpu_count, envVars, facadeVars, topology, scan>>

ReadCpuShares == Read("cpu_shares", cpu_shares(files, Subsystem(Self)))

ReadCpuQuota == Read("cpu_quota", cpu_quota(files, Subsystem(Self)))

ReadCpuPeriod == Read("cpu_period", cpu_period(files, Subsystem(Self)))

\* active_processor_count(prefer, host_cpu_count) on the subsystem
ReadActiveProcessorCount ==
    \E prefer \in BOOLEAN :
        Read("active_processor_count",
             Sub_active_processor_count(files, Subsystem(Self), prefer, host_cpu_count))

ReadNext == ReadCpuShares \/ ReadCpuQuota \/ ReadCpuPeriod \/ ReadActiveProcessorCount

SpecRead == ReadInit /\ [][ReadNext]_vars

IsV2 == Subsystem(Self).cgroup_type = CGROUP_TYPE_V2

\* the number in cpu.weight (v2) or cpu.shares (v1)
RawShares ==
    IF IsV2 THEN PyInt(Get(files["/sys/fs/cgroup/cpu.weight"])[1]).n
    ELSE PyInt(Get(files["/sys/fs/cgroup/cpu,cpuacct/user.slice/cpu.shares"])[1]).n

\* C11: for every positive raw value cpu_shares() returns NO_LIMIT exactly when
\* the raw cpu.shares is 1024 (v1) or the raw cpu.weight is 100 (v2).
C11_NoLimitIffDefault ==
    (pc = "subsystem" /\ last.name = "cpu_shares" /\ RawShares > 0)
        => /\ last.out.exc = ""
           /\ last.out.kind = "int"
           /\ (last.out.n = NO_LIMIT) <=> (RawShares = (IF IsV2 THEN 100 ELSE PER_CPU_SHARES))

C11_Witness ==
    /\ pc = "subsystem" /\ last.name = "cpu_shares"
    /\ IsV2 /\ RawShares = 100
    /\ last.out = RetInt(NO_LIMIT)

\* s = floor((262142 * w - 1) / 9999) + 2, with 262142 = 26 * 9999 + 2168
IsScaled(s, w) ==
    /\ 9999 * (s - 2 - 26 * w) <= 2168 * w - 1
    /\ 2168 * w - 1 < 9999 * (s - 2 - 26 * w + 1)

\* m is the multiple of 1024 nearest to s, the lower one on an exact tie
IsNearestMultiple(m, s) ==
    /\ m % PER_CPU_SHARES = 0
    /\ m <= s => 2 * (s - m) <= PER_CPU_SHARES
    /\ m > s => 2 * (m - s) < PER_CPU_SHARES

\* C12: for every cpu.weight w in 1..10000 other than 100, cpu_shares() is
\* scaled = floor((262142 * w - 1) / 9999) + 2 when scaled <= 1024, else the
\* multiple of 1024 nearest to scaled, the lower one on an exact tie.
C12_WeightConversion ==
    (pc = "subsystem" /\ last.name = "cpu_shares" /\ IsV2
        /\ RawShares \in 1 .. MaxWeight /\ RawShares # 100)
        => /\ last.out.exc = ""
           /\ \E s \in (26 * RawShares + (2168 * RawShares) \div 9999) ..
                       (26 * RawShares + (2168 * RawShares) \div 9999 + 3) :
                 /\ IsScaled(s, RawShares)
                 /\ IF s <= PER_CPU_SHARES THEN last.out.n = s
                    ELSE IsNearestMultiple(last.out.n, s)

\* weight 371 scales to 9728, half way between 9216 and 10240
C12_Witness ==
    /\ pc = "subsystem" /\ last.name = "cpu_shares" /\ IsV2
    /\ RawShares = 371
    /\ IsScaled(9728, 371)
    /\ last.out = RetInt(9216)

\* C13 as stated: when the content of cpu.max does not match
\* '<quota-or-max> <period>', cpu_quota() and cpu_period() return NO_LIMIT.
C13_NoMatchIsNoLimit ==
    (pc = "subsystem" /\ last.name \in {"cpu_quota", "cpu_period"} /\ IsV2
        /\ ~load_scan(files, "/sys/fs/cgroup/cpu.max").matched)
        => last.out = RetInt(NO_LIMIT)

(***************************************************************************)
(* One call of build_cgroup_subsystem, pass by pass, over families of the  *)
(* three proc files.                                                       *)
(***************************************************************************)
MaxMountLines == 3

\* the hierarchy ids of /proc/cgroups on the legacy hierarchy
V1HierarchyId(name) ==
    CASE name = "cpuset" -> 3
      [] name \in {"cpu", "cpuacct"} -> 2
      [] name = "memory" -> 4
      [] name = "pids" -> 5
      [] OTHER -> 6

\* /proc/cgroups: unified (every hierarchy id 0) or legacy, the controllers of
\* disabled with enabled 0, those of absent without a line
CgroupsFile(unified, disabled, absent) ==
    LET kept == SelectSeq(<<"cpuset", "cpu", "cpuacct", "blkio", "memory", "pids">>,
                          LAMBDA n : n \notin absent)
    IN Some([i \in 1 .. Len(kept) |->
                CgroupsLine(kept[i],
                            IF unified THEN 0 ELSE V1HierarchyId(kept[i]),
                            IF kept[i] \in disabled THEN 0 ELSE 1)])

\* a proc file without the lines that name a controller
WithoutController(file, field, name) ==
    Some(SelectSeq(Get(file), LAMBDA l : \A i \in 1 .. Len(l[field]) : l[field][i] # name))

\* a proc file with one more line in front
Preceded(line, file) == Some(<<line>> \o Get(file))

ProcLine == MountLine("/", "/proc", "proc", <<"rw">>)

Cgroup2Line(mount) == MountLine("/", mount, "cgroup2", <<"rw">>)

\* a line with the optional field of a shared mount
Shared(l) == [l EXCEPT !.optional = <<"shared:4">>]

\* the mountinfo lines of the unified family
UnifiedMountLines ==
    {ProcLine,
     Cgroup2Line("/sys/fs/cgroup"),
     Cgroup2Line("/host/sys/fs/cgroup"),
     Shared(Cgroup2Line("/run/cgroup2")),
     MountLine("/", "/sys/fs/cgroup/systemd", "cgroup", <<"rw", "name=systemd">>),
     MountLine("/", "/sys/fs/cgroup/cpuset", "cgroup", <<"rw", "cpuset">>),
     MountLine("/", "/sys/fs/cgroup/all", "cgroup",
               <<"rw", "cpuset", "cpu", "cpuacct", "memory", "pids">>)}

\* the sequences of at most n lines
RECURSIVE MountFiles(_)
MountFiles(n) ==
    IF n = 0 THEN {<<>>}
    ELSE MountFiles(n - 1) \cup
         {Append(f, l) : f \in {g \in MountFiles(n - 1) : Len(g) = n - 1},
                         l \in UnifiedMountLines}

\* a v2 candidate: every required controller on hierarchy 0
UnifiedProcs ==
    {ProcFiles(CgroupsFile(TRUE, disabled, {}), proc_self_cgroup, Some(mounts)) :
        disabled \in {{}, {"pids"}, {"memory"}},
        proc_self_cgroup \in {Some(<<SelfCgroupLine(0, <<"">>, "/")>>),
                              Some(<<SelfCgroupLine(0, <<"">>, "/a")>>),
                              None},
        mounts \in MountFiles(MaxMountLines)}

\* the legacy hierarchy, root and cgroup path varied
PathProcs ==
    {ProcFiles(V1Cgroups(1), V1SelfCgroup(cgroup_path), V1Mounts(root)) :
        root \in {"/", "/docker", "/docker/abc"},
        cgroup_path \in {"/", "/docker", "/docker/abc", "/docker/abc/x",
                         "/docker/x/docker/y", "/dockerx", "/user.slice", "/kube/docker"}}

\* the legacy hierarchy, controllers disabled, unlisted, unmounted or without a
\* /proc/self/cgroup line
LegacyProcs ==
    {ProcFiles(proc_cgroups, proc_self_cgroup, proc_self_mountinfo) :
        proc_cgroups \in {CgroupsFile(FALSE, {}, {}), CgroupsFile(FALSE, {"memory"}, {}),
                          CgroupsFile(FALSE, {"pids"}, {}), CgroupsFile(FALSE, {}, {"pids"}),
                          CgroupsFile(FALSE, {}, {"memory"}), None},
        proc_self_cgroup \in {V1SelfCgroup("/user.slice"),
                              WithoutController(V1SelfCgroup("/user.slice"),
                                                "controllers", "memory"),
                              WithoutController(V1SelfCgroup("/user.slice"),
                                                "controllers", "pids"),
                              Preceded(SelfCgroupLine(9, <<"memory">>, "/"),
                                       V1SelfCgroup("/user.slice")),
                              None},
        proc_self_mountinfo \in {V1Mounts("/"),
                                 WithoutController(V1Mounts("/"), "cgroups", "pids"),
                                 WithoutController(V1Mounts("/"), "cgroups", "memory"),
                                 Preceded(Cgroup2Line("/sys/fs/cgroup/unified"),
                                          V1Mounts("/")),
                                 Preceded(MountLine("/", "/mnt/memory", "cgroup",
                                                    <<"rw", "memory">>),
                                          V1Mounts("/")),
                                 Some(<<ProcLine>>),
                                 None}}

\* the unified hierarchy with required controllers missing from /proc/cgroups
BareProcs ==
    {ProcFiles(CgroupsFile(TRUE, {}, absent), Some(<<SelfCgroupLine(0, <<"">>, "/")>>),
               Some(<<ProcLine, Cgroup2Line("/sys/fs/cgroup")>>)) :
        absent \in {{"memory"}, {"cpuset", "cpu", "cpuacct", "memory", "pids"}}}

\* cpuset mounts: the canonical one, a second one under /sys/fs/cgroup, one under
\* a path that holds /sys/fs/cgroup further in, one elsewhere; each with the
\* root of a host mount or of a container's
CpusetLines ==
    {MountLine(root, mount, "cgroup", <<"rw", "cpuset">>) :
        root \in {"/", "/docker/abc"},
        mount \in {"/sys/fs/cgroup/cpuset", "/sys/fs/cgroup/cpuset2",
                   "/host/sys/fs/cgroup/cpuset", "/mnt/cpuset"}}

\* the sequences of at most n cpuset mounts
RECURSIVE CpusetFiles(_)
CpusetFiles(n) ==
    IF n = 0 THEN {<<>>}
    ELSE CpusetFiles(n - 1) \cup
         {Append(f, l) : f \in {g \in CpusetFiles(n - 1) : Len(g) = n - 1},
                         l \in CpusetLines}

\* the legacy hierarchy of a container, cpuset mounted several times
CpusetProcs ==
    {ProcFiles(V1Cgroups(1), V1SelfCgroup("/docker/abc/x"),
               Some(cpusets \o Get(WithoutController(V1Mounts("/docker/abc"),
                                                     "cgroups", "cpuset")))) :
        cpusets \in CpusetFiles(MaxMountLines)}

TopoInit ==
    /\ quota = NO_LIMIT
    /\ period = NO_LIMIT
    /\ share = NO_LIMIT
    /\ prefer_container_quota = FALSE
    /\ apc_result = 0
    /\ apc_pc = "off"
    /\ host_cpu_count = 1
    /\ proc \in UnifiedProcs \cup PathProcs \cup LegacyProcs \cup CpusetProcs \cup BareProcs
    /\ files = NoFiles
    /\ pc = "topology"
    /\ containerized = FALSE
    /\ cgroup_subsystem = None
    /\ memory_limit = None
    /\ read_at_construction = NoCall
    /\ last = NoEvent
    /\ topology = TopologyAt("start")
    /\ scan = ScanAt("off", "", "")

\* determine_type returns
Returned(t, result) == [t EXCEPT !.pc = "returned", !.result = result]

\* determine_type up to its early return, p1 what _read_cgroup_infos returned
EnterCgroupInfos(t, p1) ==
    IF p1.exc # "" THEN Returned(t, NoType(p1.exc))
    ELSE IF ~AllRequiredControllersEnabled(p1.cg_infos)
         THEN Returned([t EXCEPT !.cg_infos = p1.cg_infos], NoType(""))
    ELSE [t EXCEPT !.pc = "cgroups_read", !.cg_infos = p1.cg_infos,
                   !.is_cgroupsV2 = IsCgroupsV2(p1.cg_infos)]

\* the call of _read_proc_self_cgroup, p2 what it left
EnterSelfCgroup(t, p2) ==
    IF p2.exc # "" THEN Returned(t, NoType(p2.exc))
    ELSE [t EXCEPT !.pc = "self_cgroup_read", !.cg_infos = p2.cg_infos]

\* the call of _read_mount_points and the verdict, p3 what the pass left
EnterMountPoints(t, p3) ==
    Returned([t EXCEPT !.cg_infos = p3.cg_infos,
                       !.cgroupv2_mount_point_found = p3.cgroupv2_mount_point_found,
                       !.any_cgroup_mounts_found = p3.any_cgroup_mounts_found],
             Verdict(p3, t.is_cgroupsV2))

\* one pass of determine_type: the proc file it opens and the frame it leaves
Pass(at, file, t) ==
    /\ topology.pc = at
    /\ topology' = [t EXCEPT !.opened = @ \cup {file}]
    /\ UNCHANGED <<apcVars, host_cpu_count, envVars, facadeVars, last, scan>>

ReadCgroupInfos ==
    Pass("start", "proc_cgroups",
         EnterCgroupInfos(topology, read_cgroup_infos(proc.proc_cgroups)))

ReadProcSelfCgroup ==
    Pass("cgroups_read", "proc_self_cgroup",
         EnterSelfCgroup(topology, read_proc_self_cgroup(proc.proc_self_cgroup,
                                                         topology.cg_infos,
                                                         topology.is_cgroupsV2)))

ReadMountPoints ==
    Pass("self_cgroup_read", "proc_self_mountinfo",
         EnterMountPoints(topology, read_mount_points(proc.proc_self_mountinfo,
                                                      topology.cg_infos,
                                                      topology.is_cgroupsV2)))

\* the state build_cgroup_subsystem leaves, built what it came to
Built(built) ==
    /\ topology' = [topology EXCEPT !.pc = "built"]
    /\ cgroup_subsystem' = IF built.exc # "" THEN None ELSE Some(built.subsystem)
    /\ last' = [name |-> "build_cgroup_subsystem",
                out |-> IF built.exc # "" THEN Raise(built.exc) ELSE RetNone,
                touched |-> TRUE]
    /\ UNCHANGED <<apcVars, host_cpu_count, envVars, pc, containerized, memory_limit,
                   read_at_construction, scan>>

\* build_cgroup_subsystem, from the return of determine_type on
BuildCgroupSubsystem ==
    /\ topology.pc = "returned"
    /\ Built(BuildFrom(files, topology.result))

TopoNext ==
    \/ ReadCgroupInfos
    \/ ReadProcSelfCgroup
    \/ ReadMountPoints
    \/ BuildCgroupSubsystem

SpecTopo == TopoInit /\ [][TopoNext]_vars

\* a v1 subsystem was built
BuiltV1 ==
    /\ topology.pc = "built"
    /\ ~IsNone(cgroup_subsystem)
    /\ Get(cgroup_subsystem).cgroup_type = CGROUP_TYPE_V1

\* the controllers a v1 subsystem holds
V1Held == {c \in subsys_controllers : ~IsNone(Get(cgroup_subsystem)[c])}

\* what the controller c was built from, and what it resolved
RootOf(c) == Get(topology.result.cg_infos[c].root_mount_path)
MountOf(c) == Get(topology.result.cg_infos[c].mount_path)
CgroupPathOf(c) == Get(topology.result.cg_infos[c].cgroup_path)
SubsystemPathOf(c) == Get(Get(cgroup_subsystem)[c]).subsystem_path

\* C14 as stated: in the container case (root other than "/") a cgroup path that
\* starts with root and differs from it resolves to the mount point followed by
\* the cgroup path with only its leading root prefix removed; every other
\* cgroup path resolves to the mount point alone.
C14_ContainerPath ==
    BuiltV1 =>
        \A c \in V1Held :
            RootOf(c) # "/" =>
                SubsystemPathOf(c) =
                    IF StartsWith(CgroupPathOf(c), RootOf(c)) /\ CgroupPathOf(c) # RootOf(c)
                    THEN MountOf(c) \o SubSeq(CgroupPathOf(c), Len(RootOf(c)) + 1,
                                              Len(CgroupPathOf(c)))
                    ELSE MountOf(c)

\* C15: in the host case (root "/") the subsystem path is the mount point
\* concatenated with the cgroup path, and the mount point alone when the
\* cgroup path is exactly "/".
C15_HostPath ==
    BuiltV1 =>
        \A c \in V1Held :
            RootOf(c) = "/" =>
                SubsystemPathOf(c) =
                    IF CgroupPathOf(c) = "/" THEN MountOf(c)
                    ELSE MountOf(c) \o CgroupPathOf(c)

C15_Witness ==
    /\ BuiltV1
    /\ V1Held = subsys_controllers
    /\ RootOf(SUBSYS_MEMORY) = "/"
    /\ CgroupPathOf(SUBSYS_MEMORY) = "/"
    /\ SubsystemPathOf(SUBSYS_MEMORY) = "/sys/fs/cgroup/memory"

\* the required controllers: every tracked one but pids
RequiredControllers == subsys_controllers \ {SUBSYS_PIDS}

\* the lines of a proc file, none when it cannot be opened
LinesOf(file) == IF IsNone(file) THEN <<>> ELSE Get(file)

\* the lines of /proc/cgroups that name a required controller
RequiredLines ==
    {i \in 1 .. Len(LinesOf(proc.proc_cgroups)) :
        LinesOf(proc.proc_cgroups)[i].name \in RequiredControllers}

\* /proc/cgroups lists every required controller, each on hierarchy 0
ListedUnified ==
    /\ \A c \in RequiredControllers :
           \E i \in RequiredLines : LinesOf(proc.proc_cgroups)[i].name = c
    /\ \A i \in RequiredLines : LinesOf(proc.proc_cgroups)[i].hierarchy_id = 0

\* /proc/cgroups lists no required controller with its enabled flag unset
ListedEnabled == \A i \in RequiredLines : LinesOf(proc.proc_cgroups)[i].enabled # 0

\* the mountinfo lines of file-system type cgroup2
Cgroup2Lines ==
    {i \in 1 .. Len(LinesOf(proc.proc_self_mountinfo)) :
        LinesOf(proc.proc_self_mountinfo)[i].fs_type = CGROUP_TYPE_V2}

\* determine_type has returned or raised
TopoReturned == topology.pc \in {"returned", "built"}

\* determine_type returned None
ReturnedNone == topology.result = NoType("")

\* determine_type returned the cgroup2 type and the descriptor map
ReturnedV2 == topology.result.exc = "" /\ topology.result.cgroup_type = CGROUP_TYPE_V2

\* C16 as stated: whenever every required controller has hierarchy id 0 and is
\* enabled and mountinfo holds at least one cgroup2 line, determine_type
\* succeeds with verdict v2, whatever other mountinfo lines are present and in
\* whatever order.
C16_UnifiedSucceeds ==
    (TopoReturned /\ ListedUnified /\ ListedEnabled /\ Cgroup2Lines # {}) => ReturnedV2

\* the mountinfo lines the pass reads as a cgroup mount that provides a
\* tracked controller, and as a cgroup2 mount
ProvidingLines ==
    {i \in 1 .. Len(LinesOf(proc.proc_self_mountinfo)) :
        LET l == LinesOf(proc.proc_self_mountinfo)[i]
        IN /\ MountLineScans(l)
           /\ l.fs_type = CGROUP_TYPE_V1
           /\ \E j \in 1 .. Len(l.cgroups) : l.cgroups[j] \in subsys_controllers}

ScannedCgroup2Lines ==
    {i \in Cgroup2Lines : MountLineScans(LinesOf(proc.proc_self_mountinfo)[i])}

\* the three passes ran to their end and determine_type returned
PassesCompleted ==
    /\ TopoReturned
    /\ "proc_self_mountinfo" \in topology.opened
    /\ topology.result.exc = ""

\* every required controller of /proc/cgroups is on hierarchy 0
V2Candidate == \A i \in RequiredLines : LinesOf(proc.proc_cgroups)[i].hierarchy_id = 0

\* C17: determine_type returns None whenever the mountinfo pass found no cgroup
\* or cgroup2 mount that provides a tracked controller, and whenever the run is
\* a v2 candidate and no cgroup2 mount line was found, even if cgroup mounts for
\* every controller were found.
C17_NoMountNoSubsystem ==
    PassesCompleted =>
        /\ (ProvidingLines = {} /\ ScannedCgroup2Lines = {}) => ReturnedNone
        /\ (V2Candidate /\ ScannedCgroup2Lines = {}) => ReturnedNone

\* a v2 candidate, a cgroup mount that provides all five controllers, no cgroup2
\* mount
C17_Witness ==
    /\ PassesCompleted
    /\ V2Candidate /\ ListedUnified
    /\ Cgroup2Lines = {}
    /\ \E i \in ProvidingLines :
           \A c \in subsys_controllers :
               \E j \in 1 .. Len(LinesOf(proc.proc_self_mountinfo)[i].cgroups) :
                   LinesOf(proc.proc_self_mountinfo)[i].cgroups[j] = c
    /\ \A c \in subsys_controllers : topology.cg_infos[c].v1_data_complete
    /\ ReturnedNone

\* the run reached the v1 verdict: not a v2 candidate, some cgroup mount found
V1Path ==
    /\ PassesCompleted
    /\ ~topology.is_cgroupsV2
    /\ topology.any_cgroup_mounts_found

\* C18 as stated: on the v1 path determine_type fails iff some required
\* descriptor has its completeness flag false, whatever the pids descriptor;
\* build_cgroup_subsystem then yields a v1 subsystem with non-null cpuset, cpu,
\* cpuacct and memory controllers and a pids controller present only if its
\* descriptor is complete.
C18_LegacyVerdictAndBuild ==
    V1Path =>
        /\ ReturnedNone <=> \E c \in DOMAIN topology.cg_infos \ {SUBSYS_PIDS} :
                                ~topology.cg_infos[c].v1_data_complete
        /\ (topology.pc = "built" /\ ~ReturnedNone) =>
              /\ BuiltV1
              /\ RequiredControllers \subseteq V1Held
              /\ SUBSYS_PIDS \in V1Held =>
                    /\ SUBSYS_PIDS \in DOMAIN topology.cg_infos
                    /\ topology.cg_infos[SUBSYS_PIDS].v1_data_complete

\* C19: if a required controller listed in /proc/cgroups has its enabled flag
\* unset, determine_type returns None right after pass 1, with neither
\* /proc/self/cgroup nor /proc/self/mountinfo opened; a disabled pids
\* controller alone does not end the run there.
C19_DisabledFailsFirst ==
    (TopoReturned /\ ~IsNone(proc.proc_cgroups)) =>
        IF ~ListedEnabled
        THEN ReturnedNone /\ topology.opened = {"proc_cgroups"}
        ELSE "proc_self_cgroup" \in topology.opened

C19_Witness ==
    /\ TopoReturned
    /\ \E i \in RequiredLines :
           /\ LinesOf(proc.proc_cgroups)[i].name = SUBSYS_MEMORY
           /\ LinesOf(proc.proc_cgroups)[i].enabled = 0
    /\ ~IsNone(proc.proc_self_cgroup)
    /\ ProvidingLines # {}
    /\ topology.opened = {"proc_cgroups"}
    /\ ReturnedNone

\* the first cgroup2 line of mountinfo
FirstCgroup2Line ==
    LinesOf(proc.proc_self_mountinfo)[CHOOSE i \in Cgroup2Lines : \A j \in Cgroup2Lines : i <= j]

\* C20 as stated: whenever determine_type succeeds with verdict v2, all
\* descriptors of the returned map have the mount point of the first cgroup2
\* line of mountinfo as their mount path, and the same cgroup path.
C20_UnifiedDescriptors ==
    (TopoReturned /\ ReturnedV2) =>
        \A c \in DOMAIN topology.result.cg_infos :
            /\ topology.result.cg_infos[c].mount_path = Some(FirstCgroup2Line.mount)
            /\ \A d \in DOMAIN topology.result.cg_infos :
                   topology.result.cg_infos[c].cgroup_path =
                       topology.result.cg_infos[d].cgroup_path

\* the mountinfo lines the pass reads as a cgroup mount of cpuset, in file order
CpusetMounts ==
    SelectSeq(LinesOf(proc.proc_self_mountinfo),
              LAMBDA l : /\ MountLineScans(l)
                         /\ l.fs_type = CGROUP_TYPE_V1
                         /\ \E j \in 1 .. Len(l.cgroups) : l.cgroups[j] = SUBSYS_CPUSET)

\* under the canonical prefix
Canonical(mount) == StartsWith(mount, "/sys/fs/cgroup")

\* the line whose mount point the stated rule leaves recorded after the lines
\* ls, kept the line recorded before them: kept stays only if its mount point
\* is canonical and the new one is not, else the newest wins
RECURSIVE NewestUnlessCanonical(_, _)
NewestUnlessCanonical(kept, ls) ==
    IF ls = <<>> THEN kept
    ELSE NewestUnlessCanonical(
             IF Canonical(kept.mount) /\ ~Canonical(Head(ls).mount) THEN kept ELSE Head(ls),
             Tail(ls))

\* a legacy run whose mountinfo pass ran to its end over at least one cpuset mount
CpusetResolved ==
    /\ PassesCompleted
    /\ ~topology.is_cgroupsV2
    /\ SUBSYS_CPUSET \in DOMAIN topology.cg_infos
    /\ CpusetMounts # <<>>

\* C21 as stated: when a v1 cgroup line names cpuset and a cpuset mount path is
\* already recorded, the recorded path is kept only if it is under
\* /sys/fs/cgroup and the new mount point is not; in every other case the new
\* mount point replaces it.
C21_CpusetNewestWins ==
    CpusetResolved =>
        topology.cg_infos[SUBSYS_CPUSET].mount_path =
            Some(NewestUnlessCanonical(Head(CpusetMounts), Tail(CpusetMounts)).mount)

\* a legacy run, past the /proc/self/cgroup pass and the mountinfo pass
LegacyRead ==
    /\ TopoReturned
    /\ "proc_self_mountinfo" \in topology.opened
    /\ ~topology.is_cgroupsV2

\* C22 as stated: a v1 descriptor's completeness flag is true only if its cgroup
\* path, its mount path and its root mount path are all known, after any
\* sequence of /proc/self/cgroup and mountinfo lines.
C22_CompleteMeansResolved ==
    LegacyRead =>
        \A c \in DOMAIN topology.cg_infos :
            topology.cg_infos[c].v1_data_complete =>
                /\ ~IsNone(topology.cg_infos[c].cgroup_path)
                /\ ~IsNone(topology.cg_infos[c].mount_path)
                /\ ~IsNone(topology.cg_infos[c].root_mount_path)

\* /proc/self/cgroup names a listed controller under another hierarchy id than
\* /proc/cgroups recorded
HierarchyMismatch ==
    \E i \in 1 .. Len(LinesOf(proc.proc_self_cgroup)) :
        LET l == LinesOf(proc.proc_self_cgroup)[i]
        IN \E j \in 1 .. Len(l.controllers) :
               /\ l.controllers[j] \in DOMAIN topology.cg_infos
               /\ l.hierarchy_id # topology.cg_infos[l.controllers[j]].hierarchy_id

\* the mountinfo lines the pass reads as a cgroup mount of the controller c
MountsOf(c) ==
    {i \in 1 .. Len(LinesOf(proc.proc_self_mountinfo)) :
        LET l == LinesOf(proc.proc_self_mountinfo)[i]
        IN /\ MountLineScans(l)
           /\ l.fs_type = CGROUP_TYPE_V1
           /\ \E j \in 1 .. Len(l.cgroups) : l.cgroups[j] = c}

\* two cgroup mounts of one tracked controller other than cpuset
MountedTwice ==
    \E c \in subsys_controllers \ {SUBSYS_CPUSET} : \E i, j \in MountsOf(c) : i < j

\* every tracked controller that mountinfo names has a descriptor
MountedAreListed == \A c \in subsys_controllers : MountsOf(c) # {} => c \in DOMAIN topology.cg_infos

\* detection ended in a failed assertion, which build_cgroup_subsystem lets through
AssertionFailed ==
    /\ TopoReturned
    /\ topology.result = NoType("AssertionError")
    /\ topology.pc = "built" => (last.out = Raise("AssertionError") /\ IsNone(cgroup_subsystem))

Succeeded == TopoReturned /\ topology.result.exc = "" /\ topology.result.cgroup_type # ""

\* C27 as stated: whenever determine_type succeeds the returned map holds a
\* descriptor for each of memory, cpu, cpuacct and cpuset, and
\* build_cgroup_subsystem meets no lookup failure.
C27_RequiredDescriptors ==
    Succeeded =>
        /\ RequiredControllers \subseteq DOMAIN topology.result.cg_infos
        /\ topology.pc = "built" => last.out # Raise("KeyError")

\* C28 as stated: after the mountinfo pass the cpuset descriptor's mount path and
\* root mount path are those of one and the same mountinfo line.
C28_CpusetRootOfKeptMount ==
    CpusetResolved =>
        \E i \in 1 .. Len(CpusetMounts) :
            /\ topology.cg_infos[SUBSYS_CPUSET].mount_path = Some(CpusetMounts[i].mount)
            /\ topology.cg_infos[SUBSYS_CPUSET].root_mount_path = Some(CpusetMounts[i].root)

(***************************************************************************)
(* scanf on its own: one call of scanf(format_str, line) per behaviour.    *)
(***************************************************************************)
\* the formats of the callers (cgroups.py, utils.py) and one or two tokens of
\* each other kind, with literal text and without
ScanFormats ==
    {"%s %d %*d %d", "%s %d", "%s %*d", "%*s %d", "%d", "%u", "%c", "%o",
     "%x", "%X", "%*x %d", "%x %d", "%s%d", "%d%s", "(%d)", "%*s %*d", ""}

ScanLines ==
    {"memory 3 1 1", "max 100000", "cache 1", "a 1", "x", "", "12ab", "ab12",
     "-5", "(5)", "017", "1 2 3", "0xff", "0x1F 7", "0XFF", "0xZZ", "0xZZ 7",
     "dev 0xG1 5", "\n"}

ScanInit ==
    /\ quota = NO_LIMIT
    /\ period = NO_LIMIT
    /\ share = NO_LIMIT
    /\ prefer_container_quota = FALSE
    /\ apc_result = 0
    /\ apc_pc = "off"
    /\ host_cpu_count = 1
    /\ proc = ProcMissing
    /\ files = NoFiles
    /\ pc = "scanf"
    /\ containerized = FALSE
    /\ cgroup_subsystem = None
    /\ memory_limit = None
    /\ read_at_construction = NoCall
    /\ last = NoEvent
    /\ topology = TopologyAt("off")
    /\ \E format_str \in ScanFormats, line \in ScanLines :
            scan = ScanAt("call", format_str, line)

\* the call of scanf returns or raises
Scanf ==
    /\ scan.pc = "call"
    /\ scan' = [scan EXCEPT !.pc = "returned", !.result = scanf(scan.format_str, scan.line)]
    /\ UNCHANGED <<apcVars, host_cpu_count, envVars, facadeVars, last, topology>>

ScanNext == Scanf

SpecScan == ScanInit /\ [][ScanNext]_vars

\* the elements of the format that have a group: the tokens that are not discards
Captures(format_str) == SelectSeq(scanf_compile(format_str), LAMBDA e : e.cast # "")

\* whether the compiled pattern of the call is found in its line
LineMatches == ScanfOver(scanf_compile(scan.format_str), scan.line).matched

\* the result is a tuple with one value for each of the captures, in their order
TupleOf(result, captures) ==
    /\ result.exc = ""
    /\ result.matched
    /\ Len(result.values) = Len(captures)
    /\ \A k \in 1 .. Len(captures) :
            result.values[k].kind = (IF captures[k].cast = "str" THEN "str" ELSE "int")

\* C24: for every format and every line the pattern matches, scanf returns a
\* tuple with exactly one value per token that is not a discard, in the order
\* of the format; a line the pattern does not match gives None.
C24_TupleOrNone ==
    scan.pc = "returned" =>
        IF LineMatches
        THEN TupleOf(scan.result, Captures(scan.format_str))
        ELSE scan.result.exc = "" /\ ~scan.result.matched

\* C25: once the legacy memory controller is constructed, its is_hierarchical
\* equals what the probe of memory.use_hierarchy made during the construction
\* gave: true exactly when the file was readable and held a value above zero.
C25_HierarchicalIsProbe ==
    (/\ last.name = "OSContainer"
     /\ ~IsNone(cgroup_subsystem)
     /\ Subsystem(Self).cgroup_type = CGROUP_TYPE_V1
     /\ ~IsNone(Subsystem(Self).memory))
        => (Get(Subsystem(Self).memory).is_hierarchical
                <=> uses_mem_hierarchy(files, Get(Subsystem(Self).memory)))

\* C26: for every integer quota, period and shares, zero and the negative
\* values included, and every host CPU count of at least one,
\* active_processor_count returns at least 1; a quota or shares of 0 counts
\* like a value that is not set.
C26_AtLeastOne ==
    apc_pc = "done" =>
        /\ host_cpu_count >= 1 => apc_result >= 1
        /\ quota = 0 =>
              apc_result = active_processor_count(NO_LIMIT, period, share,
                                                  prefer_container_quota, host_cpu_count)
        /\ share = 0 =>
              apc_result = active_processor_count(quota, period, NO_LIMIT,
                                                  prefer_container_quota, host_cpu_count)

\* quota 0 and shares below NO_LIMIT on a host with several CPUs: the host count
C26_Witness ==
    /\ apc_pc = "done"
    /\ quota = 0
    /\ period > 0
    /\ share < NO_LIMIT
    /\ host_cpu_count > 1
    /\ apc_result = host_cpu_count

\* C29: on a legacy subsystem without a quota and a host with h >= 2 CPUs,
\* active_processor_count returns h for a raw cpu.shares of 1024, 1 for a raw
\* value from 1 to 1023 and 2 for a raw value from 1025 to 2048: at 1024 it is
\* not the ceiling of raw / 1024.
C29_DefaultSharesGiveHost ==
    (/\ pc = "subsystem"
     /\ last.name = "active_processor_count"
     /\ ~IsV2
     /\ V1_cpu_quota(files, Subsystem(Self)) = RetInt(NO_LIMIT)
     /\ host_cpu_count >= 2)
        => /\ RawShares = PER_CPU_SHARES =>
                /\ last.out = RetInt(host_cpu_count)
                /\ last.out.n # CeilDiv(RawShares, PER_CPU_SHARES)
           /\ RawShares \in 1 .. (PER_CPU_SHARES - 1) => last.out = RetInt(1)
           /\ RawShares \in (PER_CPU_SHARES + 1) .. (2 * PER_CPU_SHARES) => last.out = RetInt(2)

\* cpu.shares holds 1024 and the call returned the host count
C29_Witness ==
    /\ pc = "subsystem"
    /\ last.name = "active_processor_count"
    /\ ~IsV2
    /\ RawShares = PER_CPU_SHARES
    /\ host_cpu_count = MaxHostCpus
    /\ last.out = RetInt(MaxHostCpus)

\* C30: in every state of the facade, is_containerized() True implies that the
\* subsystem was built and the memory limit is cached; the flag is decided once,
\* during construction, and no sequence of accessor calls changes the flag, the
\* subsystem or the cached memory limit.
C30_FlagFixedAtConstruction ==
    /\ [](containerized =>
            /\ ~IsNone(cgroup_subsystem)
            /\ read_at_construction.exc = ""
            /\ memory_limit = Some(read_at_construction.n))
    /\ [][pc # "new" => UNCHANGED <<containerized, cgroup_subsystem, memory_limit>>]_vars

\* a containerized facade after a kernel write and an accessor call that went
\* to the subsystem
C30_Witness ==
    /\ pc = "ready"
    /\ containerized
    /\ ~IsNone(cgroup_subsystem)
    /\ ~IsNone(memory_limit)
    /\ last.name = "cpu_shares"
    /\ last.touched
    /\ memory_limit_in_bytes(files, Subsystem(Self)) # read_at_construction

====
